---- MODULE Spec2Model ----
(***************************************************************************)
(* Transformation pipeline of the report generator:                        *)
(*   - CSVParser.process_in_chunks   (chunked reader / left joiner)         *)
(*   - RuleEngine.apply_rules        (rule evaluation over one chunk)       *)
(*   - ReportGenerator               (validation, worker pool, artifact)    *)
(*                                                                         *)
(* A DataFrame is [cols |-> <<column names>>, rows |-> <<row tuples>>].    *)
(* A cell is an integer: a small number is itself, NaN is the null marker,  *)
(* and StrBase + n is the text made of n letters (so that concatenation    *)
(* and repetition of texts stay inside the encoding).                      *)
(***************************************************************************)
EXTENDS Integers, Sequences, FiniteSets, TLC

\* ---------------------------------------------------------------- bounds
\* settings.CSV_CHUNK_SIZE and the chunk_size argument range over 1..MaxChunk
MaxChunk == 2

\* ---------------------------------------------------------- cell values
NaN == 999
StrBase == NaN + 1

Str(n) == StrBase + n
IsStr(v) == v >= StrBase
IsNaN(v) == v = NaN
IsNum(v) == v < NaN

Range(s) == {s[i] : i \in 1..Len(s)}
Min2(a, b) == IF a <= b THEN a ELSE b
Max2(a, b) == IF a >= b THEN a ELSE b

\* ----------------------------------------------------------- DataFrames
NoDF == [cols |-> <<>>, rows |-> <<>>]
IsEmptyDF(df) == Len(df.rows) = 0 \/ Len(df.cols) = 0
HasCol(df, c) == c \in Range(df.cols)
ColIdx(df, c) == CHOOSE i \in 1..Len(df.cols) :
                    df.cols[i] = c /\ \A j \in 1..(i-1) : df.cols[j] # c
Column(df, c) == [r \in 1..Len(df.rows) |-> df.rows[r][ColIdx(df, c)]]

\* --------------------------------------------------------------- files
\* A CSV file: a header line and data lines of cells.  A zero-byte file has
\* no header.  A data line longer than the header is malformed.
NoFile == [exists |-> FALSE, header |-> <<>>, lines |-> <<>>]
CsvFile(h, ls) == [exists |-> TRUE, header |-> h, lines |-> ls]
ZeroBytes(f) == f.exists /\ Len(f.header) = 0
BadLine(f, i) == Len(f.lines[i]) > Len(f.header)

PadLine(line, n) == [i \in 1..n |-> IF i <= Len(line) THEN line[i] ELSE NaN]

\* pd.read_csv(file): "FileNotFoundError", "EmptyDataError", "ParserError"
\* or "ok" with the whole file as a DataFrame.
ReadCsvStatus(f) ==
    IF ~f.exists THEN "FileNotFoundError"
    ELSE IF ZeroBytes(f) THEN "EmptyDataError"
    ELSE IF \E i \in 1..Len(f.lines) : BadLine(f, i) THEN "ParserError"
    ELSE "ok"

ReadCsv(f) == [cols |-> f.header,
               rows |-> [i \in 1..Len(f.lines) |-> PadLine(f.lines[i], Len(f.header))]]

\* TextFileReader with chunksize: the lines (pos, pos + size] of the file.
ChunkEnd(f, pos, size) == Min2(pos + size, Len(f.lines))
ChunkBad(f, pos, size) == \E i \in (pos+1)..ChunkEnd(f, pos, size) : BadLine(f, i)
ReadChunk(f, pos, size) ==
    [cols |-> f.header,
     rows |-> [i \in 1..(ChunkEnd(f, pos, size) - pos) |->
                  PadLine(f.lines[pos + i], Len(f.header))]]

\* ------------------------------------------------------------ pd.merge
\* join_keys is the ordered list of <<input key, reference key>> pairs.
LeftOn(keys) == [i \in 1..Len(keys) |-> keys[i][1]]
RightOn(keys) == [i \in 1..Len(keys) |-> keys[i][2]]

\* pandas infers a column's type per chunk: text as soon as one cell is text.
KeyKind(df, c) ==
    IF Len(df.rows) = 0 THEN "empty"
    ELSE IF \E r \in 1..Len(df.rows) : IsStr(Column(df, c)[r]) THEN "string"
    ELSE "numeric"

\* pd.merge raises KeyError for a key column that is absent, and ValueError
\* when a key pair joins a text column with a numeric column.
MergeRaises(left, right, keys) ==
    \/ \E i \in 1..Len(keys) : ~HasCol(left, keys[i][1]) \/ ~HasCol(right, keys[i][2])
    \/ /\ \A i \in 1..Len(keys) : HasCol(left, keys[i][1]) /\ HasCol(right, keys[i][2])
       /\ \E i \in 1..Len(keys) :
            {KeyKind(left, keys[i][1]), KeyKind(right, keys[i][2])} = {"string", "numeric"}

KeyMatch(lrow, rrow, left, right, keys) ==
    \A i \in 1..Len(keys) :
        lrow[ColIdx(left, keys[i][1])] = rrow[ColIdx(right, keys[i][2])]

\* Reference columns kept by the merge: a reference key column with the
\* name of its input key column is merged into that column.
SharedKey(keys, c) == \E i \in 1..Len(keys) : keys[i][1] = c /\ keys[i][2] = c
KeptRefIdx(right, keys) ==
    SelectSeq([i \in 1..Len(right.cols) |-> i],
              LAMBDA i : ~SharedKey(keys, right.cols[i]))
RefPart(rrow, right, keys) ==
    [j \in 1..Len(KeptRefIdx(right, keys)) |-> rrow[KeptRefIdx(right, keys)[j]]]
NullPart(right, keys) ==
    [j \in 1..Len(KeptRefIdx(right, keys)) |-> NaN]

Matches(lrow, left, right, keys) ==
    SelectSeq(right.rows, LAMBDA rrow : KeyMatch(lrow, rrow, left, right, keys))

\* Output rows of one input row: one per matching reference row, in
\* reference order, or one with nulls.
JoinRow(lrow, left, right, keys) ==
    LET ms == Matches(lrow, left, right, keys)
    IN IF Len(ms) = 0 THEN << lrow \o NullPart(right, keys) >>
       ELSE [j \in 1..Len(ms) |-> lrow \o RefPart(ms[j], right, keys)]

RECURSIVE JoinRows(_, _, _, _, _)
JoinRows(n, left, right, keys, acc) ==
    IF n > Len(left.rows) THEN acc
    ELSE JoinRows(n + 1, left, right, keys,
                  acc \o JoinRow(left.rows[n], left, right, keys))

merge(left, right, keys) ==
    [cols |-> left.cols \o [j \in 1..Len(KeptRefIdx(right, keys)) |->
                               right.cols[KeptRefIdx(right, keys)[j]]],
     rows |-> JoinRows(1, left, right, keys, <<>>)]

\* ---------------------------------------------------------- expressions
\* A rule expression, as eval() reads it: an operator or function applied
\* to operands that are column names or numeric literals.  "nonstr" is an
\* expression value that is not a string (a number in the rules mapping).
\* The names eval() resolves besides the columns are those of
\* safe_locals_base (lines 165-176): max, min, sum, abs, round, isnan, ...
Col(n) == [kind |-> "col", name |-> n, val |-> 0]
Lit(v) == [kind |-> "lit", name |-> "", val |-> v]
Ref(x) == [op |-> "ref", x |-> x, y |-> Lit(0)]
Bin(op, x, y) == [op |-> op, x |-> x, y |-> y]
Call1(fn, x) == [op |-> fn, x |-> x, y |-> Lit(0)]
NonStr == [op |-> "nonstr", x |-> Lit(5), y |-> Lit(0)]
IsBinary(op) == op \in {"+", "-", "*", ">", "max", "min"}
Operands(e) == IF IsBinary(e.op) THEN {e.x, e.y} ELSE {e.x}
ColumnsOf(e) == {o.name : o \in {o2 \in Operands(e) : o2.kind = "col"}}

Abs(n) == IF n < 0 THEN -n ELSE n
StrLen(v) == v - StrBase

\* One element of a vectorised operation: whether Python raises TypeError,
\* and the value otherwise (NaN propagates through arithmetic).
CellRaises(op, a, b) ==
    CASE op = "ref" -> FALSE
      [] op = "+" -> IsStr(a) # IsStr(b)
      [] op = "-" -> IsStr(a) \/ IsStr(b)
      [] op = "*" -> (IsStr(a) /\ ~IsNum(b)) \/ (IsStr(b) /\ ~IsNum(a))
      [] op = ">" -> IsStr(a) # IsStr(b)
      [] op \in {"max", "min"} -> IsStr(a) # IsStr(b)
      [] op \in {"abs", "round", "isnan"} -> IsStr(a)
      [] OTHER -> TRUE

CellValue(op, a, b) ==
    CASE op = "ref" -> a
      [] op = "+" -> IF IsStr(a) THEN Str(StrLen(a) + StrLen(b))
                     ELSE IF IsNaN(a) \/ IsNaN(b) THEN NaN ELSE a + b
      [] op = "-" -> IF IsNaN(a) \/ IsNaN(b) THEN NaN ELSE a - b
      [] op = "*" -> IF IsStr(a) THEN Str(Max2(0, StrLen(a) * b))
                     ELSE IF IsStr(b) THEN Str(Max2(0, StrLen(b) * a))
                     ELSE IF IsNaN(a) \/ IsNaN(b) THEN NaN ELSE a * b
      [] op = "max" -> IF IsNaN(a) \/ IsNaN(b) THEN NaN ELSE Max2(a, b)
      [] op = "min" -> IF IsNaN(a) \/ IsNaN(b) THEN NaN ELSE Min2(a, b)
      [] op = "abs" -> IF IsNaN(a) THEN NaN ELSE Abs(a)
      [] op = "round" -> a
      [] op = ">" -> IF IsNaN(a) \/ IsNaN(b) THEN 0 ELSE IF a > b THEN 1 ELSE 0
      [] op = "isnan" -> IF IsNaN(a) THEN 1 ELSE 0
      [] OTHER -> NaN

\* "sum" is np.sum: applied to a column it is the total of the column, nulls
\* skipped (texts are concatenated); applied to a number it is that number.
RECURSIVE Total(_, _)
Total(cells, n) ==
    IF n > Len(cells) THEN 0
    ELSE (IF IsNaN(cells[n]) THEN 0
          ELSE IF IsStr(cells[n]) THEN StrLen(cells[n])
          ELSE cells[n]) + Total(cells, n + 1)
SumRaises(cells) ==
    \E m, n \in 1..Len(cells) : IsStr(cells[m]) /\ ~IsStr(cells[n])
ColumnSum(cells) ==
    IF \E n \in 1..Len(cells) : IsStr(cells[n]) THEN Str(Total(cells, 1)) ELSE Total(cells, 1)

\* eval(expression, safe_globals, safe_locals) against the columns of df
OperandCell(o, df, r) ==
    IF o.kind = "lit" THEN o.val ELSE df.rows[r][ColIdx(df, o.name)]
OperandColumn(o, df) ==
    IF o.kind = "lit" THEN <<o.val>> ELSE [r \in 1..Len(df.rows) |-> OperandCell(o, df, r)]
NameErrorIn(e, df) == \E c \in ColumnsOf(e) : ~HasCol(df, c)
TypeErrorIn(e, df) ==
    IF e.op = "sum" THEN SumRaises(OperandColumn(e.x, df))
    ELSE \E r \in 1..Len(df.rows) :
            CellRaises(e.op, OperandCell(e.x, df, r), OperandCell(e.y, df, r))
EvalRaises(e, df) == e.op = "nonstr" \/ NameErrorIn(e, df) \/ TypeErrorIn(e, df)
EvalColumn(e, df) ==
    IF e.op = "sum" THEN [r \in 1..Len(df.rows) |-> ColumnSum(OperandColumn(e.x, df))]
    ELSE [r \in 1..Len(df.rows) |->
            CellValue(e.op, OperandCell(e.x, df, r), OperandCell(e.y, df, r))]

\* result_df[output_field] = values: replaces the column of that name, or
\* appends a new column.
SetColumn(df, c, vals) ==
    IF HasCol(df, c)
    THEN [cols |-> df.cols,
          rows |-> [r \in 1..Len(df.rows) |->
                      [j \in 1..Len(df.cols) |->
                          IF j = ColIdx(df, c) THEN vals[r] ELSE df.rows[r][j]]]]
    ELSE [cols |-> Append(df.cols, c),
          rows |-> [r \in 1..Len(df.rows) |-> Append(df.rows[r], vals[r])]]
NullColumn(df) == [r \in 1..Len(df.rows) |-> NaN]

\* ------------------------------------------------ RuleEngine.apply_rules
\* rules is the mapping in its order: <<[field |-> f, expr |-> e], ...>>.
Fields(rules) == [i \in 1..Len(rules) |-> rules[i].field]

\* Variant: the except clause null-fills the whole frame, not one column.
ApplyRule_FailureNullsFrame(result_df, rule) ==
    IF EvalRaises(rule.expr, result_df)
    THEN SetColumn([cols |-> result_df.cols,
                    rows |-> [r \in 1..Len(result_df.rows) |->
                                [j \in 1..Len(result_df.cols) |-> NaN]]],
                   rule.field, NullColumn(result_df))
    ELSE SetColumn(result_df, rule.field, EvalColumn(rule.expr, result_df))

\* One pass of the loop over self.rules.items() (lines 178-191).
ApplyRule(result_df, rule) ==
    IF EvalRaises(rule.expr, result_df)
    THEN SetColumn(result_df, rule.field, NullColumn(result_df))
    ELSE SetColumn(result_df, rule.field, EvalColumn(rule.expr, result_df))

RECURSIVE ApplyLoop(_, _, _)
ApplyLoop(rules, n, result_df) ==
    IF n > Len(rules) THEN result_df
    ELSE ApplyLoop(rules, n + 1, ApplyRule(result_df, rules[n]))

\* Variant: without rules an empty frame is returned, as the docstring of
\* apply_rules has it.
apply_rules_NoRulesEmptyFrame(df, rules) ==
    IF IsEmptyDF(df)
    THEN [raised |-> "", arg |-> df,
          ret |-> [cols |-> IF Len(rules) > 0 THEN df.cols \o Fields(rules) ELSE df.cols,
                   rows |-> <<>>]]
    ELSE IF Len(rules) = 0
    THEN [raised |-> "", arg |-> df, ret |-> [cols |-> df.cols, rows |-> <<>>]]
    ELSE IF \E i \in 1..Len(rules) : rules[i].expr.op = "nonstr"
    THEN [raised |-> "AttributeError", arg |-> df, ret |-> NoDF]
    ELSE [raised |-> "", arg |-> df, ret |-> ApplyLoop(rules, 1, df)]

\* The call: the exception that escapes ("" when it returns), the returned
\* DataFrame, and the argument object after the call.
apply_rules(df, rules) ==
    IF IsEmptyDF(df)
    THEN [raised |-> "", arg |-> df,
          ret |-> [cols |-> IF Len(rules) > 0 THEN df.cols \o Fields(rules) ELSE df.cols,
                   rows |-> <<>>]]
    ELSE IF Len(rules) = 0
    THEN [raised |-> "", arg |-> df, ret |-> df]
    ELSE IF \E i \in 1..Len(rules) : rules[i].expr.op = "nonstr"
    THEN [raised |-> "AttributeError", arg |-> df, ret |-> NoDF]
    ELSE [raised |-> "", arg |-> df, ret |-> ApplyLoop(rules, 1, df)]

\* ------------------------------------------------------ expression text
\* The rules mapping holds each expression as a string.  Source(e) is the
\* string of the expression e, as the sequence of its lexemes (names,
\* numerals, operators, punctuation and blanks), written as in the rule
\* examples of the class docstring: "q * p", "max(q, p)".
DigitText == <<"0", "1", "2", "3", "4", "5", "6", "7", "8", "9">>
Digits == Range(DigitText)
OperandText(o) == IF o.kind = "col" THEN <<o.name>> ELSE <<DigitText[o.val + 1]>>
Source(e) ==
    IF e.op = "ref" THEN OperandText(e.x)
    ELSE IF e.op \in {"+", "-", "*", ">"}
    THEN OperandText(e.x) \o <<" ", e.op, " ">> \o OperandText(e.y)
    ELSE IF IsBinary(e.op)
    THEN <<e.op, "(">> \o OperandText(e.x) \o <<",", " ">> \o OperandText(e.y) \o <<")">>
    ELSE <<e.op, "(">> \o OperandText(e.x) \o <<")">>

\* -------------------------------------------- RuleEngine.validate_rules
\* expression.replace('(', ' ')...replace(',', ' ').split(): the maximal
\* runs of lexemes between the separators.
RECURSIVE SplitOn(_, _, _, _)
SplitOn(text, seps, n, cur) ==
    IF n > Len(text) THEN (IF cur = <<>> THEN <<>> ELSE <<cur>>)
    ELSE IF text[n] \in seps
    THEN (IF cur = <<>> THEN <<>> ELSE <<cur>>) \o SplitOn(text, seps, n + 1, <<>>)
    ELSE SplitOn(text, seps, n + 1, Append(cur, text[n]))
Separators == {"(", ")", "+", "-", "*", "/", ",", " "}
Tokens(text) == SplitOn(text, Separators, 1, <<>>)

\* t.replace('.', '', 1).replace('-', '', 1).isdigit()
WithoutFirst(t, c) ==
    IF \E i \in 1..Len(t) : t[i] = c
    THEN LET i == CHOOSE j \in 1..Len(t) : t[j] = c /\ \A k \in 1..(j - 1) : t[k] # c
         IN SubSeq(t, 1, i - 1) \o SubSeq(t, i + 1, Len(t))
    ELSE t
IsDigitToken(t) ==
    LET u == WithoutFirst(WithoutFirst(t, "."), "-")
    IN Len(u) > 0 /\ \A i \in 1..Len(u) : u[i] \in Digits
IsWord(t, words) == Len(t) = 1 /\ t[1] \in words
StartsWithQuote(t) == t[1] \in {"\"", "'"}

SafeNames == {"max", "min", "sum", "abs", "round", "np", "pd", "isnan",
              "True", "False", "None", "int", "float", "str"}
Keywords == {"if", "else", "and", "or", "not", "is", "in", "for", "while"}

\* Lines 219-225: the tokens taken for variables.
Variables(text) ==
    SelectSeq(Tokens(text), LAMBDA t :
        /\ ~IsDigitToken(t)
        /\ ~IsWord(t, SafeNames)
        /\ ~IsWord(t, Keywords)
        /\ ~StartsWithQuote(t))
MissingVars(text, df) ==
    SelectSeq(Variables(text), LAMBDA t : ~IsWord(t, Range(df.cols)))

\* Lines 217-234 for one rule: an expression that is not a string raises
\* in the try block and is marked False.
RuleIsValid(e, df) ==
    IF e.op = "nonstr" THEN FALSE ELSE Len(MissingVars(Source(e), df)) = 0

validate_rules(df, rules) ==
    [i \in 1..Len(rules) |-> [field |-> rules[i].field, valid |-> RuleIsValid(rules[i].expr, df)]]

\* ------------------------- save_rules_to_file and load_rules_from_file
\* The rules mapping as Python holds it: key and value of each item, the
\* value a str (the expression text) or, for "nonstr", an int.
PyValue(e) ==
    IF e.op = "nonstr" THEN [type |-> "int", text |-> OperandText(e.x)]
    ELSE [type |-> "str", text |-> Source(e)]
Items(rules) ==
    [i \in 1..Len(rules) |-> [key |-> rules[i].field, value |-> PyValue(rules[i].expr)]]

\* sort_keys=True: the items in the order of their keys.
KeyOrder == <<"q", "t", "u">>
SortByKey(items) ==
    LET ks == SelectSeq(KeyOrder, LAMBDA k : \E i \in 1..Len(items) : items[i].key = k)
    IN [j \in 1..Len(ks) |-> items[CHOOSE i \in 1..Len(items) : items[i].key = ks[j]]]

\* A scalar of the file: its text, and whether it is written in quotes.
\* JSON quotes every string and no number.
JsonScalar(v) == [quoted |-> v.type = "str", text |-> v.text]
JsonValue(sc) == [type |-> IF sc.quoted THEN "str" ELSE "int", text |-> sc.text]

\* YAML writes a string plain unless the plain text would be read back
\* as something else (a number, nothing at all); a plain scalar of
\* digits is read as an int.
ReadsAsInt(text) == Len(text) > 0 /\ \A i \in 1..Len(text) : text[i] \in Digits

\* Variant: the YAML emitter never quotes.
YamlScalar_NeverQuoted(v) == [quoted |-> FALSE, text |-> v.text]

YamlScalar(v) ==
    [quoted |-> v.type = "str" /\ (ReadsAsInt(v.text) \/ Len(v.text) = 0), text |-> v.text]
YamlValue(sc) ==
    [type |-> IF ~sc.quoted /\ ReadsAsInt(sc.text) THEN "int" ELSE "str", text |-> sc.text]

\* Path(rules_file).suffix.lower()
JsonSuffixes == {".json"}
YamlSuffixes == {".yaml", ".yml"}

\* json.dump(..., sort_keys=True) and yaml.dump(..., sort_keys=True)
dump(items, suffix) ==
    LET sorted == SortByKey(items)
    IN [i \in 1..Len(sorted) |->
           [key |-> sorted[i].key,
            scalar |-> IF suffix \in JsonSuffixes THEN JsonScalar(sorted[i].value)
                       ELSE YamlScalar(sorted[i].value)]]
\* json.load and yaml.safe_load
load(doc, suffix) ==
    [i \in 1..Len(doc) |->
        [key |-> doc[i].key,
         value |-> IF suffix \in JsonSuffixes THEN JsonValue(doc[i].scalar)
                   ELSE YamlValue(doc[i].scalar)]]

\* A rules file path inside settings.UPLOAD_FOLDER; the files of that
\* folder are a function from paths to files, each with its document.
NoRulesFile == [exists |-> FALSE, doc |-> <<>>]
RulesFile(doc) == [exists |-> TRUE, doc |-> doc]
RulePaths == {"rules.json", "rules.yaml", "rules.yml", "rules.txt"}
Suffix(path) ==
    CASE path = "rules.json" -> ".json"
      [] path = "rules.yaml" -> ".yaml"
      [] path = "rules.yml" -> ".yml"
      [] OTHER -> ".txt"

\* save_rules_to_file (lines 96-114): the exception raised, and the folder
\* after the call.
save_rules_to_file(items, path, disk) ==
    IF Suffix(path) \notin JsonSuffixes \cup YamlSuffixes
    THEN [raised |-> "ValueError", disk |-> disk]
    ELSE [raised |-> "", disk |-> [disk EXCEPT ![path] = RulesFile(dump(items, Suffix(path)))]]

\* load_rules_from_file (lines 61-87): the exception raised, and self.rules
\* after the call.
load_rules_from_file(path, disk) ==
    IF ~disk[path].exists THEN [raised |-> "FileNotFoundError", rules |-> <<>>]
    ELSE IF Suffix(path) \notin JsonSuffixes \cup YamlSuffixes
    THEN [raised |-> "ValueError", rules |-> <<>>]
    ELSE [raised |-> "", rules |-> load(disk[path].doc, Suffix(path))]

\* ------------------------------------------------------------ state
VARIABLES
    args,       \* process_in_chunks arguments: input_file, reference_file,
                \* has_reference, join_keys, chunk_size
    gen_pc,     \* generator position: "created", "iterating", "exhausted", "raised"
    gen_pos,    \* data lines of the input consumed so far
    gen_i,      \* enumerate index: input chunks read so far
    gen_err,    \* exception raised by the generator, "" when none
    ref_df,     \* reference DataFrame loaded once, NoDF when None
    yielded,    \* chunks yielded so far: <<[i |-> chunk number, df |-> chunk]>>
    rules,      \* RuleEngine.rules
    apply_pc,   \* "new", "ready", "returned", "raised"
    apply_in,   \* the DataFrame as it was passed to apply_rules
    apply_df,   \* that DataFrame object after the call
    apply_ret,  \* the DataFrame apply_rules returned
    validation, \* validate_rules: [pc |-> "new" | "returned", sample, ret]
    rules_disk, \* the rules files of settings.UPLOAD_FOLDER, by path
    last_save,  \* the last save_rules_to_file call: [by, path, raised]
    loader,     \* a second RuleEngine, made from a rules file:
                \* [pc |-> "new" | "loaded" | "raised", path, err, rules]
    job,        \* ReportGenerator fields besides the reader's arguments:
                \* output_format, rules_file
    job_pc,     \* "init", "constructed", "rejected", "submitting", "collecting",
                \* "exiting", "saving", "done", "failed"
    job_err,    \* the error the caller gets, "" when none
    futures,    \* futures in submission order: [i, chunk, state, collected, result]
    all_processed_chunks,  \* collected results: <<[fut |-> index, df |-> result]>>
    report_dir, \* entries of settings.REPORT_FOLDER: [name, isfile, data]
    uuids,      \* the values uuid.uuid4() has returned so far
    manager,    \* the last call of generate_report or of a ReportManager
                \* method: [fn, report_id, ret, before |-> the folder before it]
    csv_call    \* the last validate_csv call: [file, required_columns, ret]

readerVars == <<args, gen_pc, gen_pos, gen_i, gen_err, ref_df, yielded>>
storeVars == <<validation, rules_disk, last_save, loader>>
engineVars == <<rules, apply_pc, apply_in, apply_df, apply_ret, validation, rules_disk, last_save, loader>>
jobVars == <<job, job_pc, job_err, futures, all_processed_chunks, report_dir>>
callVars == <<uuids, manager, csv_call>>
vars == <<args, gen_pc, gen_pos, gen_i, gen_err, ref_df, yielded,
          rules, apply_pc, apply_in, apply_df, apply_ret,
          validation, rules_disk, last_save, loader,
          job, job_pc, job_err, futures, all_processed_chunks, report_dir,
          uuids, manager, csv_call>>

\* ParserError and EmptyDataError are subclasses of ValueError.
IsValueError(e) == e \in {"ValueError", "ParserError", "EmptyDataError"}

\* ------------------------------------------ CSVParser.process_in_chunks
MissingRefKeys(keys, ref) ==
    SelectSeq(RightOn(keys), LAMBDA c : ~HasCol(ref, c))
MissingInputKeys(keys, chunk) ==
    SelectSeq(LeftOn(keys), LAMBDA c : ~HasCol(chunk, c))

\* Variant: the join keys are not looked up in the reference columns.
RefLoadError_NoKeyCheck(a) ==
    IF ~a.has_reference THEN ""
    ELSE IF ReadCsvStatus(a.reference_file) = "FileNotFoundError" THEN "FileNotFoundError"
    ELSE IF ReadCsvStatus(a.reference_file) = "EmptyDataError" THEN "ValueError"
    ELSE IF ReadCsvStatus(a.reference_file) = "ParserError" THEN "ParserError"
    ELSE ""

\* Lines 90-110: outcome of loading the reference, "" when it loads.
RefLoadError(a) ==
    IF ~a.has_reference THEN ""
    ELSE IF ReadCsvStatus(a.reference_file) = "FileNotFoundError" THEN "FileNotFoundError"
    ELSE IF ReadCsvStatus(a.reference_file) = "EmptyDataError" THEN "ValueError"
    ELSE IF ReadCsvStatus(a.reference_file) = "ParserError" THEN "ParserError"
    ELSE IF Len(a.join_keys) > 0
            /\ Len(MissingRefKeys(a.join_keys, ReadCsv(a.reference_file))) > 0
         THEN "ValueError"
    ELSE ""

\* Variant: the EmptyDataError of a zero-byte input is not caught.
GenOpenStep_EmptyInputRaises ==
    /\ gen_pc = "created"
    /\ IF RefLoadError(args) # ""
       THEN /\ gen_pc' = "raised"
            /\ gen_err' = RefLoadError(args)
            /\ UNCHANGED ref_df
       ELSE /\ ref_df' = IF args.has_reference THEN ReadCsv(args.reference_file) ELSE NoDF
            /\ IF ~args.input_file.exists
               THEN gen_pc' = "raised" /\ gen_err' = "FileNotFoundError"
               ELSE IF ZeroBytes(args.input_file)
               THEN gen_pc' = "raised" /\ gen_err' = "EmptyDataError"
               ELSE gen_pc' = "iterating" /\ UNCHANGED gen_err
    /\ UNCHANGED <<args, gen_pos, gen_i, yielded>>

\* First resumption of the generator: load and check the reference, open
\* the input (lines 87-114).
GenOpenStep ==
    /\ gen_pc = "created"
    /\ IF RefLoadError(args) # ""
       THEN /\ gen_pc' = "raised"
            /\ gen_err' = RefLoadError(args)
            /\ UNCHANGED ref_df
       ELSE /\ ref_df' = IF args.has_reference THEN ReadCsv(args.reference_file) ELSE NoDF
            /\ IF ~args.input_file.exists
               THEN gen_pc' = "raised" /\ gen_err' = "FileNotFoundError"
               ELSE IF ZeroBytes(args.input_file)
               THEN gen_pc' = "exhausted" /\ UNCHANGED gen_err
               ELSE gen_pc' = "iterating" /\ UNCHANGED gen_err
    /\ UNCHANGED <<args, gen_pos, gen_i, yielded>>

\* Variant: a chunk without the input join keys is skipped like a chunk
\* whose merge failed.
ProcessChunk_MissingKeysDropped(chunk, ref, has_ref, keys) ==
    IF IsEmptyDF(chunk) THEN <<>>
    ELSE IF has_ref /\ Len(keys) > 0
    THEN IF Len(MissingInputKeys(keys, chunk)) > 0 THEN <<>>
         ELSE IF MergeRaises(chunk, ref, keys) THEN <<>>
         ELSE <<merge(chunk, ref, keys)>>
    ELSE <<chunk>>

\* What one iteration of the loop does with an input chunk (lines 117-142):
\* <<>> when nothing is yielded, else the one yielded chunk.
ProcessChunk(chunk, ref, has_ref, keys) ==
    IF IsEmptyDF(chunk) THEN <<>>
    ELSE IF has_ref /\ Len(keys) > 0
    THEN IF Len(MissingInputKeys(keys, chunk)) > 0 THEN <<chunk>>
         ELSE IF MergeRaises(chunk, ref, keys) THEN <<>>
         ELSE <<merge(chunk, ref, keys)>>
    ELSE <<chunk>>

\* One iteration of the loop over the input chunk iterator (lines 116-154).
GenChunkStep ==
    /\ gen_pc = "iterating"
    /\ (gen_pos < Len(args.input_file.lines) \/ gen_i = 0)
    /\ IF ChunkBad(args.input_file, gen_pos, args.chunk_size)
       THEN /\ gen_pc' = "raised"
            /\ gen_err' = "ParserError"
            /\ UNCHANGED <<gen_pos, gen_i, yielded>>
       ELSE LET chunk == ReadChunk(args.input_file, gen_pos, args.chunk_size)
                out == ProcessChunk(chunk, ref_df, args.has_reference, args.join_keys)
            IN /\ gen_pos' = ChunkEnd(args.input_file, gen_pos, args.chunk_size)
               /\ gen_i' = gen_i + 1
               /\ yielded' = yielded \o [j \in 1..Len(out) |-> [i |-> gen_i + 1, df |-> out[j]]]
               /\ UNCHANGED <<gen_pc, gen_err>>
    /\ UNCHANGED <<args, ref_df>>

\* The input iterator is exhausted: the generator returns.
GenStopStep ==
    /\ gen_pc = "iterating"
    /\ gen_pos >= Len(args.input_file.lines)
    /\ gen_i > 0
    /\ gen_pc' = "exhausted"
    /\ UNCHANGED <<args, gen_pos, gen_i, gen_err, ref_df, yielded>>

\* ------------------------------------------------------ ReportGenerator
SUPPORTED_FORMATS == {"csv", "xlsx", "json"}
\* settings.MAX_WORKERS, read from the environment
MAX_WORKERS == 2

\* CSVParser.validate_csv(file_path, required_columns), lines 28-45: the
\* pair returned.  Only the header is read (nrows=0), so no data line can
\* raise ParserError; an empty required_columns is falsy.
Missing(f, required_columns) == SelectSeq(required_columns, LAMBDA c : c \notin Range(f.header))
validate_csv(f, required_columns) ==
    IF ~f.exists THEN [valid |-> FALSE, message |-> "File not found", columns |-> <<>>]
    ELSE IF ZeroBytes(f) THEN [valid |-> FALSE, message |-> "CSV file is empty.", columns |-> <<>>]
    ELSE IF Len(Missing(f, required_columns)) > 0
    THEN [valid |-> FALSE, message |-> "Missing required columns",
          columns |-> Missing(f, required_columns)]
    ELSE [valid |-> TRUE, message |-> "", columns |-> <<>>]
\* CSVParser.get_columns(file_path): [] when the header cannot be read.
get_columns(f) == IF f.exists /\ ~ZeroBytes(f) THEN f.header ELSE <<>>

\* _validate_input_files: the exception it raises, "" when none.
ValidateInputFiles(a) ==
    IF ~validate_csv(a.input_file, <<>>).valid THEN "FileNotFoundError"
    ELSE IF a.has_reference /\ ~validate_csv(a.reference_file, <<>>).valid THEN "FileNotFoundError"
    ELSE IF a.has_reference /\ Len(a.join_keys) > 0
            /\ \E i \in 1..Len(a.join_keys) :
                  a.join_keys[i][2] \notin Range(get_columns(a.reference_file))
         THEN "ValueError"
    ELSE ""

\* RuleEngine(rules_file=...): load_rules_from_file
LoadRulesError(rf) == IF ~rf.exists THEN "FileNotFoundError" ELSE ""

\* The except clauses of generate_report (lines 88-108).
HttpError(e) ==
    IF e = "FileNotFoundError" THEN "HTTP404"
    ELSE IF IsValueError(e) THEN "HTTP400"
    ELSE "HTTP500"

\* ProcessPoolExecutor(max_workers=MAX_WORKERS), line 134: the executor is
\* built with its defaults.  Its call queue, which feeds the worker
\* processes, holds max_workers + EXTRA_QUEUED_CALLS work items; submit()
\* itself appends to an unbounded dictionary of pending work items and
\* returns at once.
EXTRA_QUEUED_CALLS == 1
CallQueueCapacity == MAX_WORKERS + EXTRA_QUEUED_CALLS

\* ReportGenerator.__init__, lines 39-47
ConstructStep ==
    /\ job_pc = "init"
    /\ IF job.output_format \notin SUPPORTED_FORMATS
       THEN job_pc' = "rejected" /\ job_err' = "ValueError"
       ELSE job_pc' = "constructed" /\ UNCHANGED job_err
    /\ UNCHANGED <<job, futures, all_processed_chunks, report_dir, rules, readerVars, uuids>>

\* generate_report up to the creation of the chunk iterator, lines 56-78
ValidateStep ==
    /\ job_pc = "constructed"
    /\ IF ValidateInputFiles(args) # ""
       THEN /\ job_pc' = "failed"
            /\ job_err' = HttpError(ValidateInputFiles(args))
            /\ UNCHANGED rules
       ELSE IF LoadRulesError(job.rules_file) # ""
       THEN /\ job_pc' = "failed"
            /\ job_err' = HttpError(LoadRulesError(job.rules_file))
            /\ UNCHANGED rules
       ELSE /\ job_pc' = "submitting"
            /\ rules' = job.rules_file.rules
            /\ UNCHANGED job_err
    /\ UNCHANGED <<job, futures, all_processed_chunks, report_dir, readerVars, uuids>>

\* Variant: a chunk of one row is taken for an empty chunk and skipped.
NewFutures_SkipSingleRow(out) ==
    LET sub == SelectSeq(out, LAMBDA y : Len(y.df.rows) > 1)
    IN [j \in 1..Len(sub) |->
           [i |-> sub[j].i, chunk |-> sub[j].df, state |-> "pending",
            collected |-> FALSE, result |-> NoDF]]

\* executor.submit for the chunks one resumption of the iterator yielded:
\* empty chunks are skipped (lines 138-142).
NewFutures(out) ==
    LET sub == SelectSeq(out, LAMBDA y : ~IsEmptyDF(y.df))
    IN [j \in 1..Len(sub) |->
           [i |-> sub[j].i, chunk |-> sub[j].df, state |-> "pending",
            collected |-> FALSE, result |-> NoDF]]

\* The submission loop, line 137: the iterator's first resumption.  An
\* exception of the iterator lands in the outer except (line 156), which
\* skips the collection loop.
IterOpenStep ==
    /\ job_pc = "submitting"
    /\ GenOpenStep
    /\ job_pc' = IF gen_pc' = "raised" THEN "exiting"
                 ELSE IF gen_pc' = "exhausted" THEN "collecting"
                 ELSE "submitting"
    /\ UNCHANGED <<job, job_err, futures, all_processed_chunks, report_dir, rules, uuids>>

\* One pass of the submission loop, lines 137-143.
IterChunkStep ==
    /\ job_pc = "submitting"
    /\ GenChunkStep
    /\ futures' = futures \o NewFutures(SubSeq(yielded', Len(yielded) + 1, Len(yielded')))
    /\ job_pc' = IF gen_pc' = "raised" THEN "exiting" ELSE "submitting"
    /\ UNCHANGED <<job, job_err, all_processed_chunks, report_dir, rules, uuids>>

\* The iterator is exhausted: the collection loop starts (line 144).
IterStopStep ==
    /\ job_pc = "submitting"
    /\ GenStopStep
    /\ job_pc' = "collecting"
    /\ UNCHANGED <<job, job_err, futures, all_processed_chunks, report_dir, rules, uuids>>

Running == {i \in 1..Len(futures) : futures[i].state = "running"}
Finished(i) == futures[i].state \in {"done", "failed"}

\* A worker process takes the oldest pending work item.
WorkerStartStep(i) ==
    /\ futures[i].state = "pending"
    /\ \A j \in 1..(i - 1) : futures[j].state # "pending"
    /\ Cardinality(Running) < MAX_WORKERS
    /\ futures' = [futures EXCEPT ![i].state = "running"]
    /\ UNCHANGED <<job, job_pc, job_err, all_processed_chunks, report_dir, rules, readerVars, uuids>>

\* _process_chunk_static in the worker, lines 162-164: the future gets the
\* result of apply_rules or the exception it raised.
WorkerReturnStep(i) ==
    /\ futures[i].state = "running"
    /\ LET call == apply_rules(futures[i].chunk, rules)
       IN futures' = [futures EXCEPT
              ![i].state = IF call.raised = "" THEN "done" ELSE "failed",
              ![i].result = call.ret]
    /\ UNCHANGED <<job, job_pc, job_err, all_processed_chunks, report_dir, rules, readerVars, uuids>>

\* An unexpected error inside the worker (out of memory, a result that
\* cannot be sent back): the future gets an exception.
WorkerCrashStep(i) ==
    /\ futures[i].state = "running"
    /\ futures' = [futures EXCEPT ![i].state = "failed"]
    /\ UNCHANGED <<job, job_pc, job_err, all_processed_chunks, report_dir, rules, readerVars, uuids>>

\* Variant: a result that completes after a later-submitted one is dropped.
Collected_DropsOvertaken(fut, n) ==
    IF fut.state = "done" /\ ~IsEmptyDF(fut.result)
       /\ ~\E j \in (n + 1)..Len(futures) : futures[j].collected
    THEN <<[fut |-> n, df |-> fut.result]>>
    ELSE <<>>

\* What the collection loop keeps of a finished future, lines 145-155.
Collected(fut, n) ==
    IF fut.state = "done" /\ ~IsEmptyDF(fut.result)
    THEN <<[fut |-> n, df |-> fut.result]>>
    ELSE <<>>

\* One pass of the loop over as_completed(futures), lines 144-155.
CollectStep(i) ==
    /\ job_pc = "collecting"
    /\ Finished(i)
    /\ ~futures[i].collected
    /\ futures' = [futures EXCEPT ![i].collected = TRUE]
    /\ all_processed_chunks' = all_processed_chunks \o Collected(futures[i], i)
    /\ UNCHANGED <<job, job_pc, job_err, report_dir, rules, readerVars, uuids>>

\* End of the with block (executor shutdown waits for the workers) and
\* return of _apply_rules_in_parallel, lines 156-159.
ExitPoolStep ==
    /\ \/ job_pc = "collecting" /\ \A i \in 1..Len(futures) : futures[i].collected
       \/ job_pc = "exiting"
    /\ \A i \in 1..Len(futures) : Finished(i)
    /\ job_pc' = "saving"
    /\ UNCHANGED <<job, job_err, futures, all_processed_chunks, report_dir, rules, readerVars, uuids>>

\* pd.concat(all_processed_chunks, ignore_index=True)
RECURSIVE ConcatRows(_, _)
ConcatRows(chunks, n) ==
    IF n > Len(chunks) THEN <<>>
    ELSE chunks[n].df.rows \o ConcatRows(chunks, n + 1)

\* Variant: pd.concat without the guard for an empty list raises ValueError.
FinalDf_ConcatUnguarded(chunks) ==
    IF Len(chunks) = 0 THEN [err |-> "ValueError", df |-> NoDF]
    ELSE [err |-> "", df |-> [cols |-> chunks[1].df.cols, rows |-> ConcatRows(chunks, 1)]]

\* Lines 80-84: the final dataset, or the exception raised building it.
FinalDf(chunks) ==
    IF Len(chunks) = 0 THEN [err |-> "", df |-> NoDF]
    ELSE [err |-> "", df |-> [cols |-> chunks[1].df.cols, rows |-> ConcatRows(chunks, 1)]]

\* File names are texts: sequences of characters.  A datetime is a record
\* [Y, m, d, H, M, S].
TwoDigits(n) == <<DigitText[((n \div 10) % 10) + 1], DigitText[(n % 10) + 1]>>
FourDigits(n) == TwoDigits(n \div 100) \o TwoDigits(n % 100)
\* datetime.strftime("%Y%m%d_%H%M%S"): zero-padded fields
strftime(dt) ==
    FourDigits(dt.Y) \o TwoDigits(dt.m) \o TwoDigits(dt.d) \o <<"_">>
        \o TwoDigits(dt.H) \o TwoDigits(dt.M) \o TwoDigits(dt.S)
FormatText(fmt) ==
    CASE fmt = "csv" -> <<"c", "s", "v">>
      [] fmt = "xlsx" -> <<"x", "l", "s", "x">>
      [] fmt = "json" -> <<"j", "s", "o", "n">>
\* f"report_{timestamp}_{report_id}.{self.output_format}", line 58
ReportFilename(ts, id, fmt) ==
    <<"r", "e", "p", "o", "r", "t", "_">> \o strftime(ts) \o <<"_">> \o id
        \o <<".">> \o FormatText(fmt)

\* The file _save_output writes at report_path (lines 56-59, 85).
ReportFile(ts, id, fmt, df) ==
    [name |-> ReportFilename(ts, id, fmt), isfile |-> TRUE, data |-> df]

\* datetime.now() and str(uuid.uuid4()): a uuid4 text is made of hexadecimal
\* digits and hyphens, all of one length, and is not returned twice.
ClockPool ==
    {[Y |-> 2024, m |-> 1, d |-> 1, H |-> 12, M |-> 0, S |-> 0],
     [Y |-> 2024, m |-> 1, d |-> 2, H |-> 9, M |-> 30, S |-> 5]}
UuidPool == {<<"a", "-", "4">>, <<"b", "-", "4">>}

\* Lines 80-87: concatenation, _save_output and return.
SaveStep ==
    /\ job_pc = "saving"
    /\ LET final == FinalDf(all_processed_chunks)
       IN IF final.err # ""
          THEN /\ job_pc' = "failed"
               /\ job_err' = HttpError(final.err)
               /\ UNCHANGED <<report_dir, uuids>>
          ELSE /\ job_pc' = "done"
               /\ \E ts \in ClockPool, id \in UuidPool \ uuids :
                     /\ report_dir' = report_dir \cup {ReportFile(ts, id, job.output_format, final.df)}
                     /\ uuids' = uuids \cup {id}
               /\ UNCHANGED job_err
    /\ UNCHANGED <<job, futures, all_processed_chunks, rules, readerVars>>

\* -------------------------------------------------------- ReportManager
\* str.split(sep): the pieces between the separators, empty ones kept
RECURSIVE Split(_, _, _, _)
Split(text, sep, n, cur) ==
    IF n > Len(text) THEN <<cur>>
    ELSE IF text[n] = sep THEN <<cur>> \o Split(text, sep, n + 1, <<>>)
    ELSE Split(text, sep, n + 1, Append(cur, text[n]))
\* sep.join(parts[n:])
RECURSIVE Join(_, _, _)
Join(parts, sep, n) ==
    IF n > Len(parts) THEN <<>>
    ELSE IF n = Len(parts) THEN parts[n]
    ELSE parts[n] \o <<sep>> \o Join(parts, sep, n + 1)
\* str.endswith
EndsWith(text, tail) ==
    Len(tail) <= Len(text) /\ SubSeq(text, Len(text) - Len(tail) + 1, Len(text)) = tail

\* pathlib: the suffix starts at the last dot, unless that dot is the first
\* or the last character of the name.
LastDot(name) ==
    IF \E i \in 1..Len(name) : name[i] = "."
    THEN CHOOSE i \in 1..Len(name) : name[i] = "." /\ \A j \in (i + 1)..Len(name) : name[j] # "."
    ELSE 0
HasSuffix(name) == 1 < LastDot(name) /\ LastDot(name) < Len(name)
PathStem(name) == IF HasSuffix(name) THEN SubSeq(name, 1, LastDot(name) - 1) ELSE name
PathSuffix(name) == IF HasSuffix(name) THEN SubSeq(name, LastDot(name), Len(name)) ELSE <<>>

\* text[1:]
FromSecond(text) == IF Len(text) = 0 THEN <<>> ELSE Tail(text)

\* datetime.strptime(text, "%Y%m%d_%H%M%S").  The format is compiled to a
\* regular expression in which %Y is four digits and every other field is
\* two digits or, failing that, one ("1[0-2]|0[1-9]|[1-9]" for %m); the
\* first way to match is taken, and text left over after it is an error.
IsDigits(t) == \A i \in 1..Len(t) : t[i] \in Digits
DigitValue(c) == CHOOSE n \in 0..9 : DigitText[n + 1] = c
RECURSIVE Number(_)
Number(t) ==
    IF Len(t) = 0 THEN 0
    ELSE 10 * Number(SubSeq(t, 1, Len(t) - 1)) + DigitValue(t[Len(t)])
\* A field of one or two digits within lo..hi; a one-digit field is 0..9
\* (1..9 for month and day).
FieldOk(t, lo, hi) ==
    /\ Len(t) \in {1, 2}
    /\ IsDigits(t)
    /\ Number(t) >= lo /\ Number(t) <= hi
FieldWidths == << <<2, 2, 2>>, <<2, 2, 1>>, <<2, 1, 2>>, <<2, 1, 1>>,
                  <<1, 2, 2>>, <<1, 2, 1>>, <<1, 1, 2>>, <<1, 1, 1>> >>
Cut(t, w, k) ==
    LET from == IF k = 1 THEN 1 ELSE IF k = 2 THEN w[1] + 1 ELSE w[1] + w[2] + 1
    IN SubSeq(t, from, from + w[k] - 1)
\* %m%d before the "_": the widths must use up the date text.
DateWidths(t) ==
    SelectSeq(FieldWidths, LAMBDA w :
        /\ w[3] = 2 /\ w[1] + w[2] = Len(t)
        /\ FieldOk(Cut(t, w, 1), 1, 12)
        /\ FieldOk(Cut(t, w, 2), 1, 31))
\* %H%M%S at the end of the text
TimeWidths(t) ==
    SelectSeq(FieldWidths, LAMBDA w :
        /\ w[1] + w[2] + w[3] <= Len(t)
        /\ FieldOk(Cut(t, w, 1), 0, 23)
        /\ FieldOk(Cut(t, w, 2), 0, 59)
        /\ FieldOk(Cut(t, w, 3), 0, 61))
DaysIn(y, m) ==
    IF m = 2 THEN (IF y % 4 = 0 /\ (y % 100 # 0 \/ y % 400 = 0) THEN 29 ELSE 28)
    ELSE IF m \in {4, 6, 9, 11} THEN 30 ELSE 31
NoDatetime == [Y |-> 0, m |-> 0, d |-> 0, H |-> 0, M |-> 0, S |-> 0]
\* The datetime parsed from date text, "_" and time text, NoDatetime when
\* strptime raises ValueError.
strptime(date, time) ==
    IF Len(date) < 4 \/ ~IsDigits(date)
    THEN NoDatetime
    ELSE LET md == SubSeq(date, 5, Len(date))
             dw == DateWidths(md)
             tw == TimeWidths(time)
         IN IF Len(dw) = 0 \/ Len(tw) = 0 THEN NoDatetime
            ELSE LET w == dw[1]
                     v == tw[1]
                     dt == [Y |-> Number(SubSeq(date, 1, 4)),
                            m |-> Number(Cut(md, w, 1)), d |-> Number(Cut(md, w, 2)),
                            H |-> Number(Cut(time, v, 1)), M |-> Number(Cut(time, v, 2)),
                            S |-> Number(Cut(time, v, 3))]
                 IN IF v[1] + v[2] + v[3] # Len(time) THEN NoDatetime
                    ELSE IF dt.Y < 1 \/ dt.d > DaysIn(dt.Y, dt.m) \/ dt.S > 59 THEN NoDatetime
                    ELSE dt

\* The order of the isoformat() strings, which list_reports sorts by.
Later(a, b) ==
    LET ka == <<a.Y, a.m, a.d, a.H, a.M, a.S>>
        kb == <<b.Y, b.m, b.d, b.H, b.M, b.S>>
    IN \E i \in 1..6 : ka[i] > kb[i] /\ \A j \in 1..(i - 1) : ka[j] = kb[j]

\* Lines 195-219 for one directory entry: the report it is listed as, if
\* any.  (size_bytes, the file's st_size, is left out of the entry.)
ListedAs(f) ==
    LET parts == Split(PathStem(f.name), "_", 1, <<>>)
        report_id == Join(parts, "_", 4)
        timestamp == strptime(parts[2], parts[3])
    IN IF ~f.isfile THEN <<>>
       ELSE IF Len(parts) < 3 \/ parts[1] # <<"r", "e", "p", "o", "r", "t">> THEN <<>>
       ELSE IF Len(report_id) = 0 THEN <<>>
       ELSE IF timestamp = NoDatetime THEN <<>>
       ELSE << [id |-> report_id, filename |-> f.name, created_at |-> timestamp,
                format |-> FromSecond(PathSuffix(f.name))] >>

Entries(dir) == UNION {Range(ListedAs(f)) : f \in dir}
\* list_reports (lines 187-227): os.listdir gives the entries in arbitrary
\* order and the sort on created_at is stable, so every newest-first
\* arrangement of the entries is a possible return value.
list_reports(dir) ==
    LET reports == Entries(dir)
    IN {l \in [1..Cardinality(reports) -> reports] :
           /\ \A i, j \in 1..Len(l) : l[i] = l[j] => i = j
           /\ \A i, j \in 1..Len(l) : i < j => ~Later(l[j].created_at, l[i].created_at)}

\* get_report_path (lines 229-264): the possible return values, None when
\* nothing matches.  A path is given by the name of its file.
None == <<>>
MatchesId(f, report_id, ext) == f.isfile /\ EndsWith(f.name, <<"_">> \o report_id \o ext)
Found(dir, report_id, fmt) ==
    {f.name : f \in {g \in dir : MatchesId(g, report_id, <<".">> \o FormatText(fmt))}}
get_report_path(report_id, dir) ==
    LET csv == Found(dir, report_id, "csv")
        xlsx == Found(dir, report_id, "xlsx")
        json == Found(dir, report_id, "json")
    IN IF csv # {} THEN csv
       ELSE IF xlsx # {} THEN xlsx
       ELSE IF json # {} THEN json
       ELSE {None}

\* Variant: the call reports success without removing the file.
delete_report_KeepsFile(path, dir) ==
    IF path # None /\ \E f \in dir : f.name = path
    THEN [ret |-> TRUE, dir |-> dir]
    ELSE [ret |-> FALSE, dir |-> dir]

\* delete_report (lines 266-278), once get_report_path has returned path:
\* the value returned and the folder afterwards.
delete_report(path, dir) ==
    IF path # None /\ \E f \in dir : f.name = path
    THEN [ret |-> TRUE, dir |-> {f \in dir : f.name # path}]
    ELSE [ret |-> FALSE, dir |-> dir]

\* A successful generate_report (lines 56-87): the artifact is written
\* under a new uuid and the path and id are returned.
GenerateReportStep(ts, id, fmt) ==
    /\ id \notin uuids
    /\ fmt \in SUPPORTED_FORMATS
    /\ uuids' = uuids \cup {id}
    /\ report_dir' = report_dir \cup {ReportFile(ts, id, fmt, NoDF)}
    /\ manager' = [fn |-> "generate_report", report_id |-> id,
                   ret |-> ReportFilename(ts, id, fmt), before |-> report_dir]

ListReportsStep ==
    /\ \E l \in list_reports(report_dir) :
          manager' = [fn |-> "list_reports", report_id |-> <<>>, ret |-> l, before |-> report_dir]
    /\ UNCHANGED <<report_dir, uuids>>

GetReportPathStep(report_id) ==
    /\ \E path \in get_report_path(report_id, report_dir) :
          manager' = [fn |-> "get_report_path", report_id |-> report_id, ret |-> path,
                      before |-> report_dir]
    /\ UNCHANGED <<report_dir, uuids>>

DeleteReportStep(report_id) ==
    /\ \E path \in get_report_path(report_id, report_dir) :
          LET call == delete_report(path, report_dir)
          IN /\ report_dir' = call.dir
             /\ manager' = [fn |-> "delete_report", report_id |-> report_id, ret |-> call.ret,
                            before |-> report_dir]
    /\ UNCHANGED uuids

\* Something else puts an entry into the report folder.
PlaceFileStep(f) ==
    /\ \A g \in report_dir : g.name # f.name
    /\ report_dir' = report_dir \cup {f}
    /\ UNCHANGED <<uuids, manager>>

\* validate_csv(file_path, required_columns) is called.
ValidateCsvStep(f, required_columns) ==
    csv_call' = [file |-> f, required_columns |-> required_columns,
                 ret |-> validate_csv(f, required_columns)]

\* ------------------------------------------------ inputs of the reader
MaxLines == 3
MaxRefLines == 2

SeqsUpTo(S, n) == UNION {[1..m -> S] : m \in 0..n}

InputHeader == <<"k", "q">>
GoodInputLines == {<<1, 7>>, <<2, 7>>, <<Str(1), 7>>}
InputLines == GoodInputLines \cup {<<1, 7, 7>>}
\* The first data line fixes the field count; later lines may be malformed.
InputFiles ==
    {NoFile, CsvFile(<<>>, <<>>)} \cup
    {CsvFile(InputHeader, ls) : ls \in {l \in SeqsUpTo(InputLines, MaxLines) :
                                         Len(l) > 0 => l[1] \in GoodInputLines}}

RefHeaders == {<<"k", "v">>, <<"rk", "v">>}
RefLines == {<<1, 7>>, <<1, 8>>, <<Str(1), 7>>}
RefFiles ==
    {NoFile, CsvFile(<<>>, <<>>)} \cup
    {CsvFile(h, ls) : h \in RefHeaders, ls \in SeqsUpTo(RefLines, MaxRefLines)}

JoinKeySets == {<<>>, << <<"k", "k">> >>, << <<"k", "rk">> >>, << <<"z", "k">> >>,
                << <<"k", "k">>, <<"q", "v">> >>}

\* The calls with a reference file and those without.
ReaderArgs(has_reference) ==
    {[input_file |-> f, reference_file |-> r, has_reference |-> has_reference,
      join_keys |-> jk, chunk_size |-> c] :
        f \in InputFiles,
        r \in IF has_reference THEN RefFiles ELSE {NoFile},
        jk \in IF has_reference THEN JoinKeySets ELSE {<<>>, << <<"k", "k">> >>},
        c \in 1..MaxChunk}

ReaderInit ==
    /\ args \in ReaderArgs(TRUE) \cup ReaderArgs(FALSE)
    /\ gen_pc = "created"
    /\ gen_pos = 0
    /\ gen_i = 0
    /\ gen_err = ""
    /\ ref_df = NoDF
    /\ yielded = <<>>

\* ---------------------------------------------- specification: reader
\* The rules folder at the start: no rules file, and one file that is not
\* a rules file.
NoRuleFiles == [p \in RulePaths |-> IF Suffix(p) = ".txt" THEN RulesFile(<<>>) ELSE NoRulesFile]

EngineIdle ==
    /\ rules = <<>>
    /\ apply_pc = "new"
    /\ apply_in = NoDF
    /\ apply_df = NoDF
    /\ apply_ret = NoDF
    /\ validation = [pc |-> "new", sample |-> NoDF, ret |-> <<>>]
    /\ rules_disk = NoRuleFiles
    /\ last_save = [by |-> "", path |-> "", raised |-> ""]
    /\ loader = [pc |-> "new", path |-> "", err |-> "", rules |-> <<>>]

JobIdle ==
    /\ job = [output_format |-> "csv", rules_file |-> [exists |-> FALSE, rules |-> <<>>]]
    /\ job_pc = "init"
    /\ job_err = ""
    /\ futures = <<>>
    /\ all_processed_chunks = <<>>
    /\ report_dir = {}

NoCall == [fn |-> "", report_id |-> <<>>, ret |-> <<>>, before |-> {}]
CallIdle ==
    /\ uuids = {}
    /\ manager = NoCall
    /\ csv_call = [file |-> NoFile, required_columns |-> <<>>, ret |-> <<>>]

GenOpen == GenOpenStep /\ UNCHANGED <<engineVars, jobVars, callVars>>
GenChunk == GenChunkStep /\ UNCHANGED <<engineVars, jobVars, callVars>>
GenStop == GenStopStep /\ UNCHANGED <<engineVars, jobVars, callVars>>

InitJoin == ReaderInit /\ EngineIdle /\ JobIdle /\ CallIdle
NextJoin == GenOpen \/ GenChunk \/ GenStop
SpecJoin == InitJoin /\ [][NextJoin]_vars

\* ----------------------------------------------- inputs of the engine
MaxRules == 2
MaxApplyRows == 2

ExprPool ==
    {Bin("*", Col("q"), Col("p")),      \* q * p
     Bin("-", Col("s"), Col("q")),      \* s - q     text minus number
     Bin("+", Col("m"), Lit(1)),        \* m + 1     no column m
     Bin("*", Col("t"), Lit(2)),        \* t * 2     output of rule t
     Bin("+", Col("u"), Col("q")),      \* u + q     output of rule u
     Bin("max", Col("q"), Col("p")),    \* max(q, p)
     Call1("sum", Col("q")),            \* sum(q)
     Call1("isnan", Col("q")),          \* isnan(q)
     Ref(Col("s")),                     \* s
     NonStr}                            \* 5, not a string
FieldPool == {"t", "u", "q"}

IsDict(rs) == \A i, j \in 1..Len(rs) : rs[i].field = rs[j].field => i = j
RuleSets ==
    {rs \in SeqsUpTo([field : FieldPool, expr : ExprPool], MaxRules) : IsDict(rs)}

ApplyHeader == <<"q", "p", "s">>
ApplyRows == {<<2, 5, Str(1)>>, <<NaN, 10, Str(2)>>}
ApplyChunks == {[cols |-> ApplyHeader, rows |-> rows] : rows \in SeqsUpTo(ApplyRows, MaxApplyRows)}

\* -------------------------------------------------- RuleEngine actions
\* RuleEngine(rules_dict=...), lines 39-51
EngineInitStep(rules_dict) ==
    /\ apply_pc = "new"
    /\ rules' = rules_dict
    /\ apply_pc' = "ready"
    /\ UNCHANGED <<apply_in, apply_df, apply_ret>>

\* apply_rules(df), lines 128-193
ApplyRulesStep(df) ==
    /\ apply_pc = "ready"
    /\ LET call == apply_rules(df, rules)
       IN /\ apply_in' = df
          /\ apply_df' = call.arg
          /\ apply_ret' = call.ret
          /\ apply_pc' = IF call.raised = "" THEN "returned" ELSE "raised"
    /\ UNCHANGED rules

ReaderIdle ==
    /\ args = [input_file |-> NoFile, reference_file |-> NoFile, has_reference |-> FALSE,
               join_keys |-> <<>>, chunk_size |-> 1]
    /\ gen_pc = "created"
    /\ gen_pos = 0
    /\ gen_i = 0
    /\ gen_err = ""
    /\ ref_df = NoDF
    /\ yielded = <<>>

EngineInit ==
    /\ apply_pc = "new"
    /\ \E rd \in RuleSets : EngineInitStep(rd)
    /\ UNCHANGED <<readerVars, jobVars, storeVars, callVars>>
ApplyRules ==
    (\E df \in ApplyChunks : ApplyRulesStep(df)) /\ UNCHANGED <<readerVars, jobVars, storeVars, callVars>>

InitApply == ReaderIdle /\ EngineIdle /\ JobIdle /\ CallIdle
NextApply == EngineInit \/ ApplyRules
SpecApply == InitApply /\ [][NextApply]_vars

\* ------------------------------------- validating and storing rules
StoredExprPool ==
    {Bin("*", Col("q"), Col("p")),      \* q * p
     Bin("+", Col("m"), Lit(1)),        \* m + 1
     Bin("*", Col("u"), Lit(2)),        \* u * 2, u the output of a rule
     Bin(">", Col("q"), Col("p")),      \* q > p
     Bin("max", Col("q"), Col("p")),    \* max(q, p)
     Call1("isnan", Col("q")),          \* isnan(q)
     Ref(Lit(5)),                       \* "5", the text
     NonStr}                            \* 5, not a string
StoredFieldPool == {"t", "u"}
StoredRuleSets ==
    {rs \in SeqsUpTo([field : StoredFieldPool, expr : StoredExprPool], MaxRules) : IsDict(rs)}
Samples ==
    {[cols |-> ApplyHeader, rows |-> << <<2, 5, Str(1)>> >>],
     [cols |-> ApplyHeader, rows |-> <<>>],
     [cols |-> <<"q">>, rows |-> << <<2>> >>]}

\* validate_rules(df), lines 195-236
ValidateRulesStep(df) ==
    /\ apply_pc = "ready"
    /\ validation.pc = "new"
    /\ validation' = [pc |-> "returned", sample |-> df, ret |-> validate_rules(df, rules)]
    /\ UNCHANGED <<rules, apply_pc, apply_in, apply_df, apply_ret, rules_disk, last_save, loader>>

\* save_rules_to_file(rules_file) of the engine, lines 89-114
SaveRulesStep(path) ==
    /\ apply_pc = "ready"
    /\ LET call == save_rules_to_file(Items(rules), path, rules_disk)
       IN /\ rules_disk' = call.disk
          /\ last_save' = [by |-> "engine", path |-> path, raised |-> call.raised]
    /\ UNCHANGED <<rules, apply_pc, apply_in, apply_df, apply_ret, validation, loader>>

\* RuleEngine(rules_file=path): load_rules_from_file, lines 44-45 and 54-87
LoadRulesStep(path) ==
    /\ loader.pc = "new"
    /\ LET call == load_rules_from_file(path, rules_disk)
       IN loader' = [pc |-> IF call.raised = "" THEN "loaded" ELSE "raised",
                     path |-> path, err |-> call.raised, rules |-> call.rules]
    /\ UNCHANGED <<rules, apply_pc, apply_in, apply_df, apply_ret, validation, rules_disk, last_save>>

\* save_rules_to_file(rules_file) of the engine that loaded its rules
SaveLoadedStep(path) ==
    /\ loader.pc = "loaded"
    /\ LET call == save_rules_to_file(loader.rules, path, rules_disk)
       IN /\ rules_disk' = call.disk
          /\ last_save' = [by |-> "loader", path |-> path, raised |-> call.raised]
    /\ UNCHANGED <<rules, apply_pc, apply_in, apply_df, apply_ret, validation, loader>>

EngineInitStored ==
    /\ apply_pc = "new"
    /\ \E rd \in StoredRuleSets : EngineInitStep(rd)
    /\ UNCHANGED <<readerVars, jobVars, storeVars, callVars>>
ValidateRules == (\E df \in Samples : ValidateRulesStep(df)) /\ UNCHANGED <<readerVars, jobVars, callVars>>
SaveRules == (\E path \in RulePaths : SaveRulesStep(path)) /\ UNCHANGED <<readerVars, jobVars, callVars>>
LoadRules == (\E path \in RulePaths : LoadRulesStep(path)) /\ UNCHANGED <<readerVars, jobVars, callVars>>
SaveLoaded == (\E path \in RulePaths : SaveLoadedStep(path)) /\ UNCHANGED <<readerVars, jobVars, callVars>>

InitRules == ReaderIdle /\ EngineIdle /\ JobIdle /\ CallIdle
NextRules == EngineInitStored \/ ValidateRules \/ SaveRules \/ LoadRules \/ SaveLoaded
SpecRules == InitRules /\ [][NextRules]_vars

\* -------------------------------------------------- inputs of the job
JobMaxLines == 3

JobGoodLines == {<<1, 7>>, <<Str(1), 7>>}
JobLines == JobGoodLines \cup {<<1, 7, 7>>}
JobInputFiles ==
    {NoFile, CsvFile(<<>>, <<>>)} \cup
    {CsvFile(InputHeader, ls) : ls \in {l \in SeqsUpTo(JobLines, JobMaxLines) :
                                         Len(l) > 0 => l[1] \in JobGoodLines}}
JobRefFiles == {NoFile, CsvFile(<<"k", "v">>, << <<1, 7>>, <<1, 8>> >>),
                CsvFile(<<"k", "v">>, << <<1, 7>>, <<2, 8>> >>),
                CsvFile(<<"rk", "v">>, << <<1, 7>> >>)}
JobRuleFiles ==
    {[exists |-> FALSE, rules |-> <<>>],
     [exists |-> TRUE, rules |-> << [field |-> "t", expr |-> Bin("+", Col("k"), Col("q"))] >>],
     [exists |-> TRUE, rules |-> << [field |-> "t", expr |-> NonStr] >>]}
FormatPool == {"csv", "json", "pdf"}

JobArgs ==
    {[input_file |-> f, reference_file |-> r, has_reference |-> TRUE,
      join_keys |-> jk, chunk_size |-> c] :
        f \in JobInputFiles, r \in JobRefFiles,
        jk \in {<<>>, << <<"k", "k">> >>}, c \in 1..MaxChunk}
    \cup
    {[input_file |-> f, reference_file |-> NoFile, has_reference |-> FALSE,
      join_keys |-> <<>>, chunk_size |-> c] :
        f \in JobInputFiles, c \in 1..MaxChunk}

JobInit ==
    /\ args \in JobArgs
    /\ gen_pc = "created"
    /\ gen_pos = 0
    /\ gen_i = 0
    /\ gen_err = ""
    /\ ref_df = NoDF
    /\ yielded = <<>>
    /\ job \in [output_format : FormatPool, rules_file : JobRuleFiles]
    /\ job_pc = "init"
    /\ job_err = ""
    /\ futures = <<>>
    /\ all_processed_chunks = <<>>
    /\ report_dir = {}

\* ------------------------------------------------- specification: job
EngineUnused == UNCHANGED <<apply_pc, apply_in, apply_df, apply_ret, storeVars, manager, csv_call>>

Construct == ConstructStep /\ EngineUnused
Validate == ValidateStep /\ EngineUnused
IterOpen == IterOpenStep /\ EngineUnused
IterChunk == IterChunkStep /\ EngineUnused
IterStop == IterStopStep /\ EngineUnused
WorkerStart == (\E i \in 1..Len(futures) : WorkerStartStep(i)) /\ EngineUnused
WorkerReturn == (\E i \in 1..Len(futures) : WorkerReturnStep(i)) /\ EngineUnused
WorkerCrash == (\E i \in 1..Len(futures) : WorkerCrashStep(i)) /\ EngineUnused
Collect == (\E i \in 1..Len(futures) : CollectStep(i)) /\ EngineUnused
ExitPool == ExitPoolStep /\ EngineUnused
Save == SaveStep /\ EngineUnused

Init == JobInit /\ EngineIdle /\ CallIdle
Next ==
    \/ Construct \/ Validate
    \/ IterOpen \/ IterChunk \/ IterStop
    \/ WorkerStart \/ WorkerReturn \/ WorkerCrash
    \/ Collect \/ ExitPool \/ Save
Spec == Init /\ [][Next]_vars

\* ------------------------------------------------- claims: the reader
\* The k-th chunk the reader took from the input file.
InputChunk(k) == ReadChunk(args.input_file, (k - 1) * args.chunk_size, args.chunk_size)
InputPart(row, k) == SubSeq(row, 1, Len(InputChunk(k).cols))
RefCells(row, k) == SubSeq(row, Len(InputChunk(k).cols) + 1, Len(row))
JoinRequested == args.has_reference /\ Len(args.join_keys) > 0
\* Reference rows whose key equals the key of input row r of chunk k.
RefMatchCount(k, r) ==
    Cardinality({j \in 1..Len(ref_df.rows) :
        KeyMatch(InputChunk(k).rows[r], ref_df.rows[j], InputChunk(k), ref_df, args.join_keys)})
SameInputRows(k, r) ==
    Cardinality({r2 \in 1..Len(InputChunk(k).rows) : InputChunk(k).rows[r2] = InputChunk(k).rows[r]})
RowsFor(y, k, r) ==
    {o \in 1..Len(y.df.rows) : InputPart(y.df.rows[o], k) = InputChunk(k).rows[r]}

\* C1: with a reference file and join keys, every row of every non-empty
\* input chunk read so far appears at least once in the yielded chunks.
C1_LeftJoinNeverDropsRow ==
    JoinRequested =>
        \A k \in 1..gen_i : \A r \in 1..Len(InputChunk(k).rows) :
            \E n \in 1..Len(yielded) :
                yielded[n].i = k /\ RowsFor(yielded[n], k, r) # {}

\* C9: an input row whose key matches m reference rows has exactly
\* max(1, m) rows in the joined chunk, equal on the input columns; with
\* m = 0 its reference columns are all null.
C9_JoinMultiplicity ==
    JoinRequested =>
        \A k \in 1..gen_i :
            (Len(InputChunk(k).rows) > 0
               /\ Len(MissingInputKeys(args.join_keys, InputChunk(k))) = 0) =>
                \E n \in 1..Len(yielded) :
                    /\ yielded[n].i = k
                    /\ \A r \in 1..Len(InputChunk(k).rows) :
                        /\ Cardinality(RowsFor(yielded[n], k, r))
                              = SameInputRows(k, r) * Max2(1, RefMatchCount(k, r))
                        /\ RefMatchCount(k, r) = 0 =>
                              \A o \in RowsFor(yielded[n], k, r) :
                                  \A v \in Range(RefCells(yielded[n].df.rows[o], k)) : IsNaN(v)

RefMissing == args.has_reference /\ ~args.reference_file.exists
RefLacksJoinKey ==
    /\ args.has_reference
    /\ ReadCsvStatus(args.reference_file) = "ok"
    /\ \E i \in 1..Len(args.join_keys) :
          args.join_keys[i][2] \notin Range(args.reference_file.header)

YieldedFor(k) == SelectSeq(yielded, LAMBDA y : y.i = k)
LacksInputKeys(k) ==
    Len(InputChunk(k).rows) > 0 /\ Len(MissingInputKeys(args.join_keys, InputChunk(k))) > 0

\* C11: with a reference and join keys, an input chunk that has rows and
\* lacks a join-key input column is yielded once, unjoined, with exactly
\* its own columns and rows, and the reader goes on: it never raises
\* because of that chunk, and the chunks after it are read and yielded.
C11_MissingKeysPassThrough ==
    JoinRequested =>
        /\ \A k \in 1..gen_i : LacksInputKeys(k) =>
              YieldedFor(k) = <<[i |-> k, df |-> InputChunk(k)]>>
        /\ (gen_pc = "raised" /\ gen_i > 0 /\ LacksInputKeys(gen_i)) =>
              /\ gen_err = "ParserError"
              /\ ChunkBad(args.input_file, gen_pos, args.chunk_size)
        /\ (gen_pc = "exhausted" /\ gen_i > 0) => gen_pos = Len(args.input_file.lines)

C11_Witness ==
    /\ JoinRequested
    /\ gen_pc = "exhausted"
    /\ gen_i = 2
    /\ LacksInputKeys(1) /\ LacksInputKeys(2)
    /\ Len(yielded) = 2
    /\ yielded[2].df = InputChunk(2)
    /\ Len(ref_df.rows) > 0

InputHasNoRows == args.input_file.exists /\ Len(args.input_file.lines) = 0

\* C18: for an input file without data rows (zero bytes, or only a header)
\* and a reference that, if given, loads, the generator yields no chunk
\* and raises nothing: its first resumption ends it or reads one empty
\* chunk, which is skipped, and then it ends.
C18_EmptyInputYieldsNothing ==
    (InputHasNoRows /\ RefLoadError(args) = "") =>
        /\ yielded = <<>>
        /\ gen_pc # "raised"
        /\ gen_err = ""
        /\ ZeroBytes(args.input_file) => gen_pc \in {"created", "exhausted"}
        /\ (gen_pc = "iterating" /\ gen_i > 0) => ENABLED GenStopStep

C18_Witness ==
    /\ InputHasNoRows /\ ~ZeroBytes(args.input_file)
    /\ JoinRequested /\ Len(ref_df.rows) > 0
    /\ gen_pc = "exhausted"
    /\ gen_i = 1
    /\ yielded = <<>>

\* --------------------------------------------- claims: the rule engine
ApplyCalled == apply_pc \in {"returned", "raised"}
AllStringExprs == \A i \in 1..Len(rules) : rules[i].expr.op # "nonstr"
\* The case of the claims about evaluation: a RuleSet of string
\* expressions applied to a chunk that has rows.
ApplyCase == ApplyCalled /\ ~IsEmptyDF(apply_in) /\ Len(rules) > 0 /\ AllStringExprs

\* The frame the i-th rule is evaluated against, and whether it fails there.
FrameBefore(i) == ApplyLoop(SubSeq(rules, 1, i - 1), 1, apply_in)
FailedAt(i) == EvalRaises(rules[i].expr, FrameBefore(i))
\* The result had rule i been the expression e, for an e that evaluates.
Counterfactual(i, e) == ApplyLoop([rules EXCEPT ![i].expr = e], 1, apply_in)
Replacements(i) == {e \in ExprPool : ~EvalRaises(e, FrameBefore(i))}
IsNullColumn(df, c) == \A r \in 1..Len(df.rows) : IsNaN(Column(df, c)[r])

\* Rules whose expression reads the output field of a rule of S, directly
\* or through the output fields of other rules.
RECURSIVE DependOn(_)
DependOn(S) ==
    LET S2 == S \cup {j \in 1..Len(rules) :
                        ColumnsOf(rules[j].expr) \cap {rules[k].field : k \in S} # {}}
    IN IF S2 = S THEN S ELSE DependOn(S2)

\* C3 as stated: a failing rule's column is null in every row, and every
\* other rule's column is what it would be had the failing rule evaluated.
C3_FailureIsolated ==
    ApplyCase =>
        /\ apply_pc = "returned"
        /\ \A i \in 1..Len(rules) : FailedAt(i) =>
            /\ IsNullColumn(apply_ret, rules[i].field)
            /\ \A e \in Replacements(i) : \A j \in 1..Len(rules) \ {i} :
                  Column(apply_ret, rules[j].field)
                      = Column(Counterfactual(i, e), rules[j].field)

\* C3 amended: a failing rule's column is null in every row, and every
\* other rule that does not read the failing rule's output field, directly
\* or through other rules' output fields, has the column it would have had
\* the failing rule evaluated.
C3_FailureIsolatedFromIndependentRules ==
    ApplyCase =>
        /\ apply_pc = "returned"
        /\ \A i \in 1..Len(rules) : FailedAt(i) =>
            /\ IsNullColumn(apply_ret, rules[i].field)
            /\ \A e \in Replacements(i) : \A j \in 1..Len(rules) \ DependOn({i}) :
                  Column(apply_ret, rules[j].field)
                      = Column(Counterfactual(i, e), rules[j].field)

\* A rule failed on a missing column while an earlier rule, which does not
\* read its output, produced numbers.
C3_Witness ==
    /\ ApplyCase
    /\ Len(rules) = 2
    /\ Len(apply_in.rows) = 2
    /\ ~FailedAt(1) /\ FailedAt(2)
    /\ NameErrorIn(rules[2].expr, FrameBefore(2))
    /\ 1 \notin DependOn({2})
    /\ \A r \in 1..Len(apply_ret.rows) : IsNum(Column(apply_ret, rules[1].field)[r])
    /\ IsNullColumn(apply_ret, rules[2].field)

\* C4: apply_rules returns a chunk and raises nothing, whatever the rules.
C4_NoExceptionEscapesApply == apply_pc # "raised"

\* C5: on a chunk with rows and a non-empty RuleSet the result is the input
\* columns followed by one column per rule, the rows are the same, every
\* input column keeps its values, and the argument is not modified.
C5_InputColumnsKept ==
    ApplyCase =>
        /\ apply_pc = "returned"
        /\ apply_ret.cols = apply_in.cols \o Fields(rules)
        /\ Len(apply_ret.rows) = Len(apply_in.rows)
        /\ \A c \in Range(apply_in.cols) : Column(apply_ret, c) = Column(apply_in, c)
        /\ apply_df = apply_in

Builtins == {"max", "min", "sum", "abs", "round"}
LanguageOps == {"ref", "+", "-", "*", ">"} \cup Builtins
\* Rule i uses a function outside the builtin set, or a name that is not a
\* column of the frame it is evaluated against.
OutsideLanguage(i) ==
    rules[i].expr.op \notin LanguageOps \/ NameErrorIn(rules[i].expr, FrameBefore(i))

\* C12: a rule whose expression uses a name or function other than the
\* frame's columns, numeric literals and max, min, sum, abs, round fails to
\* evaluate, and its output column is null in every row.
C12_ExpressionLanguageClosed ==
    ApplyCase =>
        /\ apply_pc = "returned"
        /\ \A i \in 1..Len(rules) : OutsideLanguage(i) =>
              /\ FailedAt(i)
              /\ IsNullColumn(apply_ret, rules[i].field)

RowOnly(df, r) == [cols |-> df.cols, rows |-> <<df.rows[r]>>]
CallsBuiltinOnColumns(e) == e.op \in Builtins /\ \A o \in Operands(e) : o.kind = "col"

\* C13: for a rule that calls max, min, sum, abs or round on columns and
\* evaluates, the output value of row r is the value the same expression
\* has on row r taken alone, whatever the other rows hold.
C13_BuiltinsElementwise ==
    ApplyCase =>
        \A i \in 1..Len(rules) :
            (CallsBuiltinOnColumns(rules[i].expr) /\ ~FailedAt(i)) =>
                \A r \in 1..Len(apply_in.rows) :
                    Column(apply_ret, rules[i].field)[r]
                        = EvalColumn(rules[i].expr, RowOnly(FrameBefore(i), r))[1]

C17_EmptyChunkSchemaUnion ==
    (ApplyCalled /\ Len(apply_in.rows) = 0 /\ Len(rules) > 0) =>
        /\ apply_pc = "returned"
        /\ Len(apply_ret.rows) = 0
        /\ Range(apply_ret.cols) = Range(apply_in.cols) \cup Range(Fields(rules))
        /\ \A m, n \in 1..Len(apply_ret.cols) : apply_ret.cols[m] = apply_ret.cols[n] => m = n

\* ------------------------------------ claims: validation and storage
\* The column references of an expression as the specification describes
\* them: the tokens between operators, parentheses and commas that are no
\* builtin-function name, no numeric literal and no quoted string.
Operators == {"+", "-", "*", "/", ">", "<", "=", "%"}
ReferenceTokens(text) ==
    SelectSeq(SplitOn(text, Operators \cup {"(", ")", ",", " "}, 1, <<>>), LAMBDA t :
        ~IsWord(t, Builtins) /\ ~IsDigitToken(t) /\ ~StartsWithQuote(t))
AllReferencesKnown(text, df) ==
    \A n \in 1..Len(ReferenceTokens(text)) : IsWord(ReferenceTokens(text)[n], Range(df.cols))

\* C14: validate_rules returns, for every rule of string expression, True
\* exactly when every column reference of the expression is a column of
\* the sample; "q * p" against a sample without p is marked False.
C14_ValidIffReferencesKnown ==
    validation.pc = "returned" =>
        /\ Len(validation.ret) = Len(rules)
        /\ \A i \in 1..Len(rules) : rules[i].expr.op # "nonstr" =>
              /\ validation.ret[i].field = rules[i].field
              /\ validation.ret[i].valid
                    = AllReferencesKnown(Source(rules[i].expr), validation.sample)
              /\ (rules[i].expr = Bin("*", Col("q"), Col("p"))
                     /\ ~HasCol(validation.sample, "p")) => ~validation.ret[i].valid

SameEntries(a, b) == Len(a) = Len(b) /\ Range(a) = Range(b)
StoreCase == apply_pc = "ready" /\ Len(rules) > 0 /\ AllStringExprs
Written == {p \in RulePaths : rules_disk[p].exists /\ Suffix(p) \in JsonSuffixes \cup YamlSuffixes}

FormatUnsupported == job.output_format \notin SUPPORTED_FORMATS
InputMissing == ~args.input_file.exists
InputEmpty == ZeroBytes(args.input_file)
InputUnparsable ==
    args.input_file.exists /\ \E i \in 1..Len(args.input_file.lines) : BadLine(args.input_file, i)
RulesMissing == ~job.rules_file.exists
RefLacksJoinColumn ==
    /\ args.has_reference /\ args.reference_file.exists
    /\ \E i \in 1..Len(args.join_keys) :
          args.join_keys[i][2] \notin Range(args.reference_file.header)
ValidationError ==
    \/ FormatUnsupported \/ InputMissing \/ RefMissing \/ RulesMissing
    \/ RefLacksJoinColumn \/ InputEmpty \/ InputUnparsable
JobOver == job_pc \in {"rejected", "failed", "done"}

\* C2: with an unsupported format, a missing input, reference or rules
\* source, a reference without a join column, or an empty or unparsable
\* input, nothing is submitted to the pool, no artifact is written, and the
\* job ends with an error.
C2_ValidationBeforeParallelWork ==
    ValidationError =>
        /\ futures = <<>>
        /\ report_dir = {}
        /\ JobOver => job_err # ""

SubmittedDone == {i \in 1..Len(futures) : futures[i].state = "done" /\ ~IsEmptyDF(futures[i].result)}
CollectedCount(i) ==
    Cardinality({n \in 1..Len(all_processed_chunks) : all_processed_chunks[n].fut = i})

\* C6: when _apply_rules_in_parallel has returned, its result holds the
\* output of every submitted chunk whose worker did not raise exactly once,
\* with that worker's result, and nothing of a chunk whose worker raised.
C6_WorkerFailureTolerated ==
    (job_pc \in {"saving", "done"}) =>
        /\ \A i \in 1..Len(futures) :
              CollectedCount(i) = IF i \in SubmittedDone THEN 1 ELSE 0
        /\ \A n \in 1..Len(all_processed_chunks) :
              all_processed_chunks[n].df = futures[all_processed_chunks[n].fut].result

\* ------------------------------------------ specification: validate_csv
RequiredPool == {<<>>, <<"k">>, <<"k", "z">>, <<"z", "q", "y">>}
ValidateCsv ==
    /\ \E f \in InputFiles, required_columns \in RequiredPool :
          ValidateCsvStep(f, required_columns)
    /\ UNCHANGED <<readerVars, engineVars, jobVars, uuids, manager>>

InitValidate == ReaderIdle /\ EngineIdle /\ JobIdle /\ CallIdle
NextValidate == ValidateCsv
SpecValidate == InitValidate /\ [][NextValidate]_vars

\* ------------------------------------- specification: report catalog
\* The report folder holds at most MaxFiles entries.
MaxFiles == 2

Named(stamp, id, ext) == <<"r", "e", "p", "o", "r", "t", "_">> \o stamp \o <<"_">> \o id \o ext
NewYear == [Y |-> 2024, m |-> 1, d |-> 1, H |-> 12, M |-> 0, S |-> 0]
\* Entries that generate_report did not write: reports named by hand or
\* by another tool, a file without extension, a text file, a directory.
ForeignNames ==
    {Named(strftime(NewYear), <<"y">>, <<".", "c", "s", "v">>),
     Named(<<"2", "0", "2", "4", "0", "1", "0", "2", "_", "0", "9", "3", "0", "0", "5">>,
           <<"x", "_", "y">>, <<".", "c", "s", "v">>),
     Named(<<"2", "0", "2", "4", "0", "1", "0", "3", "_", "1", "2", "0", "0">>,
           <<"w">>, <<".", "c", "s", "v">>),
     Named(strftime(NewYear), <<"z">>, <<>>),
     <<"n", "o", "t", "e", "s", ".", "t", "x", "t">>}
ForeignEntries ==
    {[name |-> n, isfile |-> TRUE, data |-> NoDF] : n \in ForeignNames}
    \cup {[name |-> Named(strftime(NewYear), <<"d">>, <<".", "c", "s", "v">>),
           isfile |-> FALSE, data |-> NoDF]}
\* The ids callers ask for: ids of reports, issued or not yet, the name
\* of the directory, and the tail of a generated name from its time field
\* on.
IdPool ==
    UuidPool \cup {<<"y">>, <<"x", "_", "y">>, <<"d">>,
                   <<"1", "2", "0", "0", "0", "0", "_", "a", "-", "4">>}

GenerateReport ==
    /\ Cardinality(report_dir) < MaxFiles
    /\ \E ts \in ClockPool, id \in UuidPool, fmt \in SUPPORTED_FORMATS :
          GenerateReportStep(ts, id, fmt)
    /\ UNCHANGED <<readerVars, engineVars, job, job_pc, job_err, futures,
                   all_processed_chunks, csv_call>>
ListReports ==
    /\ ListReportsStep
    /\ UNCHANGED <<readerVars, engineVars, job, job_pc, job_err, futures,
                   all_processed_chunks, csv_call>>
GetReportPath ==
    /\ \E report_id \in IdPool : GetReportPathStep(report_id)
    /\ UNCHANGED <<readerVars, engineVars, job, job_pc, job_err, futures,
                   all_processed_chunks, csv_call>>
DeleteReport ==
    /\ \E report_id \in IdPool : DeleteReportStep(report_id)
    /\ UNCHANGED <<readerVars, engineVars, job, job_pc, job_err, futures,
                   all_processed_chunks, csv_call>>
PlaceFile ==
    /\ Cardinality(report_dir) < MaxFiles
    /\ \E f \in ForeignEntries : PlaceFileStep(f)
    /\ UNCHANGED <<readerVars, engineVars, job, job_pc, job_err, futures,
                   all_processed_chunks, csv_call>>

InitCatalog == ReaderIdle /\ EngineIdle /\ JobIdle /\ CallIdle
NextCatalog == GenerateReport \/ ListReports \/ GetReportPath \/ DeleteReport \/ PlaceFile
SpecCatalog == InitCatalog /\ [][NextCatalog]_vars

\* ------------------------------------- specification: a saturated pool
\* One job over an input that has one chunk more than the workers and the
\* executor's call queue can hold together.
PoolInputFile ==
    CsvFile(InputHeader, [n \in 1..(MAX_WORKERS + CallQueueCapacity + 1) |-> <<1, 7>>])
PoolArgs ==
    {[input_file |-> PoolInputFile, reference_file |-> NoFile, has_reference |-> FALSE,
      join_keys |-> <<>>, chunk_size |-> c] : c \in 1..MaxChunk}
PoolInit ==
    /\ args \in PoolArgs
    /\ gen_pc = "created"
    /\ gen_pos = 0
    /\ gen_i = 0
    /\ gen_err = ""
    /\ ref_df = NoDF
    /\ yielded = <<>>
    /\ job \in [output_format : {"csv"},
                rules_file : {rf \in JobRuleFiles : rf.exists}]
    /\ job_pc = "init"
    /\ job_err = ""
    /\ futures = <<>>
    /\ all_processed_chunks = <<>>
    /\ report_dir = {}

InitPool == PoolInit /\ EngineIdle /\ CallIdle
NextPool ==
    \/ Construct \/ Validate
    \/ IterOpen \/ IterChunk \/ IterStop
    \/ WorkerStart \/ WorkerReturn \/ WorkerCrash
    \/ Collect \/ ExitPool \/ Save
SpecPool == InitPool /\ [][NextPool]_vars

AllWorkersFailed ==
    Len(futures) > 0 /\ \A i \in 1..Len(futures) : futures[i].state = "failed"

\* C7: if every submitted chunk failed in its worker, the job ends without
\* an error and has written one empty artifact in the requested format.
C7_AllChunksFailedStillSucceeds ==
    (AllWorkersFailed /\ job_pc \notin {"submitting", "collecting", "exiting", "saving"}) =>
        /\ job_pc = "done"
        /\ job_err = ""
        /\ \E f \in report_dir :
              /\ report_dir = {f}
              /\ PathSuffix(f.name) = <<".">> \o FormatText(job.output_format)
              /\ IsEmptyDF(f.data)

C7_Witness ==
    /\ job_pc = "done"
    /\ Len(futures) >= 2
    /\ AllWorkersFailed
    /\ gen_pc = "exhausted"
    /\ \E f \in report_dir : IsEmptyDF(f.data)

NonEmptyYielded == SelectSeq(yielded, LAMBDA y : ~IsEmptyDF(y.df))

\* C8: the futures are, in order, exactly the non-empty chunks the chunk
\* sequence has yielded, each once; no future holds an empty chunk, and a
\* failed worker's chunk has no second future.
C8_DispatchedOnceInOrder ==
    /\ Len(futures) = Len(NonEmptyYielded)
    /\ \A n \in 1..Len(futures) :
          /\ futures[n].i = NonEmptyYielded[n].i
          /\ futures[n].chunk = NonEmptyYielded[n].df
          /\ ~IsEmptyDF(futures[n].chunk)
    /\ \A m, n \in 1..Len(futures) : futures[m].i = futures[n].i => m = n

C8_Witness ==
    /\ job_pc = "done"
    /\ Len(futures) = 3
    /\ Len(futures[1].chunk.rows) = 1
    /\ futures[1].state = "failed" /\ futures[1].collected
    /\ futures[2].state = "done" /\ futures[2].collected
    /\ Len(all_processed_chunks) = 2

\* The input is the only thing wrong with the job.
OnlyInputAtFault ==
    /\ ~FormatUnsupported /\ ~RulesMissing
    /\ ~RefMissing /\ ~RefLacksJoinColumn
    /\ args.has_reference => ReadCsvStatus(args.reference_file) = "ok"
NotFoundOutcome == HttpError("FileNotFoundError")

\* C19: a job whose input exists but is empty or unparsable ends with an
\* error, and that error is not the one a missing input gets.
C19_EmptyInputIsSchemaError ==
    (JobOver /\ OnlyInputAtFault /\ (InputEmpty \/ InputUnparsable)) =>
        /\ job_pc = "failed"
        /\ job_err # ""
        /\ job_err # NotFoundOutcome

Ceil(n, c) == (n + c - 1) \div c
InputRows == Len(args.input_file.lines)
InputParsable == ReadCsvStatus(args.input_file) = "ok"
RefKey(row) == [i \in 1..Len(args.join_keys) |-> row[ColIdx(ref_df, args.join_keys[i][2])]]
UniqueRefKeys ==
    \A m, n \in 1..Len(ref_df.rows) : RefKey(ref_df.rows[m]) = RefKey(ref_df.rows[n]) => m = n
OneStringRule == Len(rules) = 1 /\ AllStringExprs
NoWorkerFailed == \A i \in 1..Len(futures) : futures[i].state = "done"
FinalData == (CHOOSE f \in report_dir : TRUE).data

\* C20: (a) without a join, once the reader has ended on a parsable input of
\* N rows it has yielded ceil(N/c) chunks, the k-th being the input lines
\* (k-1)c+1 .. min(kc, N) in file order, at most c of them; (b) a finished
\* job over N > 0 rows with a join on unique reference keys and one rule,
\* none of whose workers failed, has written a dataset of exactly N rows
\* that has the rule's output column.
C20_PartitionAndRowCount ==
    /\ (InputParsable /\ ~JoinRequested /\ gen_pc = "exhausted") =>
          /\ Len(yielded) = Ceil(InputRows, args.chunk_size)
          /\ \A k \in 1..Len(yielded) :
                /\ yielded[k].i = k
                /\ yielded[k].df = InputChunk(k)
                /\ Len(yielded[k].df.rows) <= args.chunk_size
          /\ ConcatRows(yielded, 1) = ReadCsv(args.input_file).rows
    /\ (job_pc = "done" /\ InputParsable /\ InputRows > 0 /\ JoinRequested
          /\ UniqueRefKeys /\ OneStringRule /\ NoWorkerFailed) =>
          /\ Len(FinalData.rows) = InputRows
          /\ HasCol(FinalData, rules[1].field)

\* ------------------------------------------- claims: the worker pool
IteratorRaised == gen_pc = "raised"
PoolReturned == job_pc \in {"saving", "done"}
Resolved(i) == Finished(i) /\ futures[i].collected
ArtifactWritten == report_dir # {}

\* C24: the concatenation and the artifact write happen only after every
\* submitted future is resolved: it has finished and the collection loop has
\* taken its result or logged and dropped its failure.
C24_CollectionBeforeConcat ==
    (PoolReturned \/ ArtifactWritten) => \A i \in 1..Len(futures) : Resolved(i)

\* C27: when the chunk sequence raised during submission, the result of
\* _apply_rules_in_parallel still holds the output of every chunk that was
\* submitted before the error and processed without error.
C27_IteratorErrorKeepsSubmittedWork ==
    (PoolReturned /\ IteratorRaised) =>
        \A i \in SubmittedDone :
            \E n \in 1..Len(all_processed_chunks) :
                /\ all_processed_chunks[n].fut = i
                /\ all_processed_chunks[n].df = futures[i].result

Perms(n) == {f \in [1..n -> 1..n] : \A a, b \in 1..n : f[a] = f[b] => a = b}
\* What a worker makes of the chunk of future i: a function of the chunk
\* and the RuleSet alone.
Processed(i) == apply_rules(futures[i].chunk, rules).ret
RECURSIVE RowsInOrder(_, _)
RowsInOrder(order, n) ==
    IF n > Len(order) THEN <<>>
    ELSE Processed(order[n]).rows \o RowsInOrder(order, n + 1)
WrittenRows == IF IsEmptyDF(FinalData) THEN <<>> ELSE FinalData.rows

\* C26: for a finished job none of whose workers failed, the futures are
\* the non-empty chunks of the chunk sequence, and the written dataset is
\* the rows of the processed chunks, each chunk once, its rows contiguous
\* and in their within-chunk order, the chunks in some order; when the
\* chunk sequence raised, the dataset is empty under every schedule.
C26_ResultIndependentOfScheduling ==
    (job_pc = "done" /\ NoWorkerFailed) =>
        /\ \A i \in 1..Len(futures) : futures[i].chunk = NonEmptyYielded[i].df
        /\ IF IteratorRaised THEN WrittenRows = <<>>
           ELSE \E order \in Perms(Len(futures)) :
                    WrittenRows = RowsInOrder(order, 1)

C26_Witness ==
    /\ job_pc = "done" /\ NoWorkerFailed /\ ~IteratorRaised
    /\ Len(futures) = 2
    /\ Len(futures[1].chunk.rows) = 2
    /\ futures[1].chunk.rows[1] # futures[1].chunk.rows[2]
    /\ all_processed_chunks[1].fut = 2
    /\ WrittenRows = Processed(2).rows \o Processed(1).rows

\* Chunks read from the reader that no worker has finished yet.
InFlight == {i \in 1..Len(futures) : ~Finished(i)}

\* C25: at every moment the number of chunks read from the reader and not
\* yet finished by a worker is at most the worker count plus the capacity
\* of the executor's queue.
C25_Backpressure ==
    Cardinality(InFlight) <= MAX_WORKERS + CallQueueCapacity

\* ------------------------------------------------ claims: validate_csv
CsvChecked == csv_call.ret # <<>>
ParsesAsCsv(f) == ReadCsvStatus(f) = "ok"
HasRequired(f, required_columns) == \A i \in 1..Len(required_columns) : required_columns[i] \in Range(f.header)
ParseErrorMessages == {"CSV file is empty.", "CSV parsing error", "Error validating CSV"}

\* C23: validate_csv returns (True, "") exactly when the file exists,
\* parses as CSV, data lines included, and has every required column;
\* otherwise it returns False with a message that says the file was not
\* found, or names every missing required column, or reports the parse
\* error.
C23_ValidateCsvContract ==
    CsvChecked =>
        LET f == csv_call.file
            required_columns == csv_call.required_columns
            ret == csv_call.ret
        IN /\ ret.valid <=> (f.exists /\ ParsesAsCsv(f) /\ HasRequired(f, required_columns))
           /\ ret.valid => ret.message = ""
           /\ ~ret.valid =>
                 \/ ~f.exists /\ ret.message = "File not found"
                 \/ /\ f.exists /\ ParsesAsCsv(f)
                    /\ ret.message = "Missing required columns"
                    /\ Range(ret.columns) = {c \in Range(required_columns) : c \notin Range(f.header)}
                    /\ ret.columns # <<>>
                 \/ f.exists /\ ~ParsesAsCsv(f) /\ ret.message \in ParseErrorMessages

\* ---------------------------------------------- claims: report catalog
\* The name pattern report_<YYYYMMDD_HHMMSS>_<id>.<ext>, read field by
\* field: eight digits of a calendar date, six digits of a time of day, a
\* non-empty id and a non-empty extension after the last dot.
PatternParts(name) == Split(PathStem(name), "_", 1, <<>>)
PatternStamp(name) ==
    LET date == PatternParts(name)[2]
        time == PatternParts(name)[3]
    IN [Y |-> Number(SubSeq(date, 1, 4)), m |-> Number(SubSeq(date, 5, 6)),
        d |-> Number(SubSeq(date, 7, 8)), H |-> Number(SubSeq(time, 1, 2)),
        M |-> Number(SubSeq(time, 3, 4)), S |-> Number(SubSeq(time, 5, 6))]
MatchesPattern(name) ==
    /\ HasSuffix(name)
    /\ Len(PatternParts(name)) >= 4
    /\ PatternParts(name)[1] = <<"r", "e", "p", "o", "r", "t">>
    /\ Len(PatternParts(name)[2]) = 8 /\ IsDigits(PatternParts(name)[2])
    /\ Len(PatternParts(name)[3]) = 6 /\ IsDigits(PatternParts(name)[3])
    /\ Len(Join(PatternParts(name), "_", 4)) > 0
    /\ LET t == PatternStamp(name)
       IN /\ t.Y >= 1 /\ t.m \in 1..12 /\ t.d \in 1..DaysIn(t.Y, t.m)
          /\ t.H <= 23 /\ t.M <= 59 /\ t.S <= 59
PatternEntry(name) ==
    [id |-> Join(PatternParts(name), "_", 4), filename |-> name,
     created_at |-> PatternStamp(name), format |-> Tail(PathSuffix(name))]
NewestFirst(l) ==
    \A i, j \in 1..Len(l) : i < j => ~Later(l[j].created_at, l[i].created_at)
Listed == manager.fn = "list_reports"

\* C22: what list_reports returns has exactly one entry for each file of
\* the folder whose name matches the pattern, with id, created_at and
\* format as the name gives them, has no entry for any other file, and is
\* ordered newest first.
C22_ListMatchesPattern ==
    Listed =>
        /\ Range(manager.ret) =
              {PatternEntry(f.name) : f \in {g \in manager.before :
                                               g.isfile /\ MatchesPattern(g.name)}}
        /\ \A i, j \in 1..Len(manager.ret) : manager.ret[i] = manager.ret[j] => i = j
        /\ NewestFirst(manager.ret)

\* The folder holds nothing but artifacts that generate_report wrote.
OnlyArtifacts(dir) ==
    \A f \in dir :
        /\ f.isfile
        /\ \E ts \in ClockPool, id \in uuids, fmt \in SUPPORTED_FORMATS :
              f.name = ReportFilename(ts, id, fmt)
NotFound(report_id, dir) == get_report_path(report_id, dir) = {None}
DeleteCalled == manager.fn = "delete_report"
WithoutId(l, report_id) == SelectSeq(l, LAMBDA e : e.id # report_id)

\* An id as generate_report makes them has no underscore.
IdShaped(report_id) == \A i \in 1..Len(report_id) : report_id[i] # "_"

IdOf(f) == IF ListedAs(f) = <<>> THEN <<>> ELSE ListedAs(f)[1].id

\* C29: a delete_report(id) removes at most one file, and only a file
\* whose id is exactly id; every other entry of the folder is still there,
\* every other listed report is still listed, and every report with
\* another id resolves as before.
C29_DeleteOnlyExactId ==
    [][ (manager' # manager /\ manager'.fn = "delete_report") =>
            /\ report_dir' \subseteq report_dir
            /\ Cardinality(report_dir \ report_dir') <= 1
            /\ \A f \in report_dir :
                  IF IdOf(f) = manager'.report_id
                  THEN f \notin report_dir' => ListedAs(f)[1] \notin Entries(report_dir')
                  ELSE /\ f \in report_dir'
                       /\ ListedAs(f) # <<>> =>
                             /\ ListedAs(f)[1] \in Entries(report_dir')
                             /\ get_report_path(IdOf(f), report_dir')
                                    = get_report_path(IdOf(f), report_dir)
      ]_vars

GeneratedCalled == manager.fn = "generate_report"
ExprOf(value) == CHOOSE e \in StoredExprPool : PyValue(e) = value
RulesOf(items) ==
    [i \in 1..Len(items) |-> [field |-> items[i].key, expr |-> ExprOf(items[i].value)]]
SameOutputs(a, b, fields) ==
    \A c \in fields : HasCol(a, c) /\ HasCol(b, c) /\ Column(a, c) = Column(b, c)
Reloaded == loader.pc = "loaded"

\* C28: for a RuleSet R of string expressions that was saved and loaded
\* again, apply_rules with the loaded rules gives every output column the
\* values that apply_rules with R gives it, on every chunk.
C28_ReloadKeepsEvaluationOrder ==
    (Reloaded /\ StoreCase /\ SameEntries(loader.rules, Items(rules))) =>
        \A df \in Samples :
            SameOutputs(apply_rules(df, RulesOf(loader.rules)).ret,
                        apply_rules(df, rules).ret, Range(Fields(rules)))

====
